---- MODULE Spec2Model ----
(***************************************************************************)
(* Multi-game console for the XIAO RP2040 (src/unnamed/part_002): the      *)
(* button debounce/edge layer, the tone queue, the session state machine   *)
(* (menu / playing / game over) and the game router, as a state machine.   *)
(*                                                                         *)
(* Time.  The sketch reads millis() once per loop() iteration ("now") and  *)
(* uses a stored timestamp only in a difference against "now" (or, for the *)
(* tone end time, in a comparison with "now").  The behaviour is therefore *)
(* unchanged when the clock and every timestamp are shifted by the same    *)
(* amount.  The model keeps every timestamp relative to the "now" of the   *)
(* last loop() iteration (the clock of the model is 0 at the end of each   *)
(* iteration, a past timestamp is negative) and forgets how far in the     *)
(* past a timestamp lies once it is older than every threshold it is       *)
(* compared with (Rebase).  The 49-day wrap of the 32-bit millisecond      *)
(* counter is outside the model.                                           *)
(*                                                                         *)
(* Tone queue.  The sketch reads the ring only between toneHead and        *)
(* toneTail and writes a slot before toneTail passes it, so the behaviour  *)
(* is unchanged when the ring is turned and the slots outside the queue    *)
(* are overwritten.  At the end of each loop() iteration the model turns   *)
(* the ring so that toneHead is 0 and blanks the unused slots (RebaseRing).*)
(* SpecSound keeps the positions of the ring and only blanks the unused     *)
(* slots (BlankRing).                                                      *)
(***************************************************************************)
EXTENDS Integers, Sequences, FiniteSets, TLC

\* ------------------------------------------------------------------------
\* Program constants
\* ------------------------------------------------------------------------
MATRIX_W == 8
MATRIX_H == 8
MATRIX_COUNT == 64
BTN_DEBOUNCE_MS == 30
MATRIX_FRAME_MS == 33
OLED_FRAME_MS == 100
GAME_OVER_DELAY_MS == 2000
LONG_PRESS_MS == 500
SNAKE_INIT_MS == 280
MINE == 9
MINE_COUNT == 10
TONE_QUEUE_SIZE == 24
LASTMSG_SIZE == 24

STATE_MENU == "STATE_MENU"
STATE_PLAYING == "STATE_PLAYING"
STATE_GAME_OVER == "STATE_GAME_OVER"
SystemState == {STATE_MENU, STATE_PLAYING, STATE_GAME_OVER}

GAME_SNAKE_WALL == 0
GAME_SNAKE_WRAP == 1
GAME_TETRIS == 2
GAME_FLAPPY_EASY == 3
GAME_FLAPPY_HARD == 4
GAME_ASTEROIDS_HARD == 5
GAME_PACMAN_EASY == 6
GAME_PACMAN_HARD == 7
GAME_SPACE_SHOOTER == 8
GAME_BREAKOUT == 9
GAME_TTT_AI == 10
GAME_TTT_2P == 11
GAME_PONG == 12
GAME_TUG == 13
GAME_CHECKERS_AI == 14
GAME_CHECKERS_2P == 15
GAME_MINESWEEPER == 16
GAME_DINO == 17
GAME_COUNT == 18
\* No game: gameState has not been initialised since power-up.
NoGame == 0 - 1
GameId == 0 .. (GAME_COUNT - 1)

B_UP == 0
B_DOWN == 1
B_LEFT == 2
B_RIGHT == 3
B_PAUSE == 4
B_SELECT == 5
BUTTON_COUNT == 6
ButtonId == 0 .. (BUTTON_COUNT - 1)

\* ------------------------------------------------------------------------
\* Bounds of the model
\* ------------------------------------------------------------------------
\* SpecButtons: two samples of the buttons are SampleMs or 3*SampleMs apart.
SampleMs == 10
\* SpecButtons: the buttons whose raw level changes are 0 .. DrivenButtons-1.
DrivenButtons == 1
\* Spec, SpecRounds, SpecPause: two loop() iterations are TickMs apart.
TickMs == 500
\* Spec, SpecRounds, SpecPause: millis() read inside an iteration may be this
\* much later than its "now".
MillisLag == 1
\* Spec, SpecRounds, SpecPause: the user changes at most this many raw levels
\* between two loop() iterations.
MaxPerTick == 2
\* Spec: the user changes raw button levels at most this many times.
MaxRawChanges == 3
\* Spec: a round adds to the score at most this many times.
MaxScoreEvents == 2
\* SpecRounds: the user changes the raw levels of PAUSE and SELECT at most this many times.
MaxRoundChanges == 3
\* SpecRounds: a round adds to the score at most this many times.
MaxRoundScoreEvents == 2
\* SpecPause: the user changes the raw level of PAUSE at most this many times.
MaxPauseChanges == 5
\* SpecPause: a round adds to the score at most this many times.
MaxPauseScoreEvents == 1
\* SpecButtons: the press edges owed are counted up to this.
MaxOwed == 2
\* SpecFrame: setPixel is called with coordinates up to this far outside the grid.
PixelMargin == 1
\* SpecFrame: the colours are 0 (off) up to this.
MaxColor == 1
\* SpecFrame: at most this many cells of the frame are lit.
MaxLit == 1
\* SpecRender: the shortest time between two loop() iterations.
RenderTickMs == 7
\* SpecRender: the longest time between two loop() iterations.
LongTickMs == 250
\* SpecSound: updateSound is called this long, or three times this long, after
\* the call before; a tone lasts three or six times this long.
\* SpecMines: time between two loop() iterations.
MinesTickMs == 250
\* SpecMines: counted raw level changes in a run.
MaxMinesChanges == 3
\* SpecMinesRounds: counted raw level changes in a run.
MaxMinesRoundChanges == 4
\* SpecMessage: how far past sizeof(lastMsg) - 1 the longest message goes.
MsgOver == 2
\* SpecRouter: ids past the enum that the router functions are called with.
UnknownIds == 2
\* SpecRouter: calls logged in a run.
MaxRouterCalls == 6
\* SpecRouter: score events of the game logic in a round.
MaxRouterScoreEvents == 1
\* SpecSnake: the time between two calls of snakeUpdate is one or two of these.
SnakeTickMs == 140
\* SpecSnake: the presses made in a run.
MaxSnakePresses == 3
\* SpecSnake: the calls of snakeUpdate in a round.
MaxSnakeUpdates == 9
\* SpecTtt: the time between two calls of tttUpdate.
TttTickMs == 115
\* SpecCancel: counted raw level changes, and score events in a round.
MaxCancelChanges == 5
MaxCancelScoreEvents == 1
MaxHoldChanges == 4
MaxHoldScoreEvents == 1
PumpMs == 15
\* SpecSound: enqueueTone is called at most this many times.
MaxEnqueues == 30
\* SpecSoundFair: enqueueTone is called at most this many times.
MaxFairEnqueues == 5
\* SpecSound: the frequency of the k-th enqueueTone call is this plus k.
SoundFreqBase == 400

\* a - b on uint32_t.  The clock does not wrap in the model, so a difference wraps
\* only when b lies after a, and is then (2^32 - a small number): beyond every
\* threshold it is compared with.  TLC's largest integer stands for it.
U32Sub(a, b) == IF a >= b THEN a - b ELSE 2147483647

VARIABLES
  buttons,               \* Button buttons[BUTTON_COUNT] (without the pin)
  toneQueue, toneHead, toneTail, toneActive, toneEndTime, soundMuted,
  buzzer,                \* the buzzer pin: 0 silent, else the frequency of tone(BUZZER, f)
  systemState, currentGame, menuIndex, score, highScore, lastWin, lastMsg,
  gamePaused, menuMuteComboLatched, gameOverStartTime,
  lastMatrixMs, lastOledMs,
  slotOwner,             \* history: the game whose init function last wrote gameState
  calls,                 \* history: the calls made by the last loop() iteration, in order
  rawHist,               \* history: per button, what the sampled raw level did so far
  rawChanges,            \* history: the number of counted raw level changes so far
  scoreEvents,           \* history: the number of score additions of the round
  sound,                 \* history: what the tone queue was asked to do so far
  frameBuffer,           \* uint32_t frameBuffer[MATRIX_COUNT]
  gameState,             \* gameState.minesweeper
  pausePressStart,       \* static uint32_t pausePressStart of minesweeperUpdate
  pauseWasPressed,       \* static bool pauseWasPressed of minesweeperUpdate
  place,                 \* minesweeperPlaceMines: where it stands, and its locals
  op                     \* history: the last operation

vars == <<buttons, toneQueue, toneHead, toneTail, toneActive, toneEndTime, soundMuted,
          buzzer, systemState, currentGame, menuIndex, score, highScore, lastWin, lastMsg,
          gamePaused, menuMuteComboLatched, gameOverStartTime,
          lastMatrixMs, lastOledMs, slotOwner, calls, rawHist, rawChanges, scoreEvents, sound, frameBuffer,
          gameState, pausePressStart, pauseWasPressed, place, op>>

Min(a, b) == IF a < b THEN a ELSE b

\* A timestamp relative to the new "now", forgotten beyond the horizon.
RebaseStamp(ts, now, horizon) ==
  IF ts - now < 0 - horizon THEN 0 - horizon ELSE ts - now

\* ------------------------------------------------------------------------
\* Frame buffer functions.  fb is the frame buffer, a colour per physical LED.
\* ------------------------------------------------------------------------
\* ledIndex without the reversal of the odd rows.
ledIndex_RowMajor(x, y) == (y * MATRIX_W + x) % 256

\* ledIndex(x, y) on uint8_t.
ledIndex(x, y) ==
  IF y % 2 = 0
  THEN (y * MATRIX_W + x) % 256
  ELSE (y * MATRIX_W + (MATRIX_W - 1 - x)) % 256

clearFrame(color) == [i \in 0 .. (MATRIX_COUNT - 1) |-> color]

\* setPixel without the bounds test: the coordinates are cast to uint8_t.
setPixel_NoBounds(fb, x, y, color) ==
  LET i == ledIndex(x % 256, y % 256)
  IN  IF i \in DOMAIN fb THEN [fb EXCEPT ![i] = color] ELSE fb

\* setPixel(x, y, color) with x and y in int8_t.
setPixel(fb, x, y, color) ==
  IF x < 0 \/ x >= MATRIX_W \/ y < 0 \/ y >= MATRIX_H THEN fb
  ELSE [fb EXCEPT ![ledIndex(x, y)] = color]

\* ------------------------------------------------------------------------
\* Button functions
\* ------------------------------------------------------------------------
\* initButtons(): raw[i] is digitalRead(pin) == LOW, ms is millis().
initButtons(raw, ms) ==
  [i \in ButtonId |-> [stable |-> raw[i], last |-> raw[i],
                       press |-> FALSE, release |-> FALSE, changedAt |-> ms]]

clearButtonEdges(btns) ==
  [i \in ButtonId |-> [btns[i] EXCEPT !.press = FALSE, !.release = FALSE]]

\* Variants: the window compared with >, and no window at all.
DebounceElapsed_Strict(now, changedAt) == U32Sub(now, changedAt) > BTN_DEBOUNCE_MS
DebounceElapsed_Always(now, changedAt) == U32Sub(now, changedAt) >= 0

\* now - buttons[i].changedAt >= Timing::BTN_DEBOUNCE_MS
DebounceElapsed(now, changedAt) == U32Sub(now, changedAt) >= BTN_DEBOUNCE_MS

\* The body of the for loop of updateButtons, for one button.
SampleButton(b, raw, now) ==
  LET b1 == IF raw # b.last THEN [b EXCEPT !.last = raw, !.changedAt = now] ELSE b
  IN  IF DebounceElapsed(now, b1.changedAt) /\ raw # b1.stable
      THEN IF raw THEN [b1 EXCEPT !.stable = raw, !.press = TRUE]
                  ELSE [b1 EXCEPT !.stable = raw, !.release = TRUE]
      ELSE b1

updateButtons(btns, now, raw) ==
  [i \in ButtonId |-> SampleButton(btns[i], raw[i], now)]

\* takePress: the value returned, and the buttons afterwards.
takePressResult(btns, id) == btns[id].press
takePress(btns, id) == [btns EXCEPT ![id].press = FALSE]

isDown(btns, id) == btns[id].stable

RebaseButtons(btns, now) ==
  [i \in ButtonId |->
     [btns[i] EXCEPT !.changedAt = RebaseStamp(@, now, BTN_DEBOUNCE_MS)]]

\* ------------------------------------------------------------------------
\* History of the sampled raw level of one button (not program state):
\*   level  the raw level at the last sample
\*   boot   the raw level initButtons read
\*   held   for how long the sampled level has not changed (up to the window)
\*   n      the number of changes seen (up to 2)
\*   gap    the time between the last two changes (up to the window)
\*   fast   no level reached by a change has yet been held for the window
\*   owed   since the last clearButtonEdges: the press edges committed less
\*          the takePress calls that returned true (0 .. MaxOwed)
\* ------------------------------------------------------------------------
RawHistInit(raw) ==
  [i \in ButtonId |-> [level |-> raw[i], boot |-> raw[i],
                       held |-> BTN_DEBOUNCE_MS, n |-> 0,
                       gap |-> BTN_DEBOUNCE_MS, fast |-> TRUE, owed |-> 0]]

RawHistNext(h, raw, dt) ==
  [i \in ButtonId |->
     IF raw[i] # h[i].level
     THEN [h[i] EXCEPT !.level = raw[i], !.held = 0, !.n = Min(@ + 1, 2),
                       !.gap = Min(h[i].held + dt, BTN_DEBOUNCE_MS)]
     ELSE [h[i] EXCEPT !.held = Min(@ + dt, BTN_DEBOUNCE_MS),
                       !.fast = @ /\ (h[i].n = 0 \/ h[i].held + dt < BTN_DEBOUNCE_MS)]]

\* The press edges owed after updateButtons took the buttons from before to
\* after: one more for each press it committed.
OwedAfterUpdate(h, before, after) ==
  [i \in ButtonId |->
     IF ~before[i].stable /\ after[i].stable
     THEN [h[i] EXCEPT !.owed = Min(@ + 1, MaxOwed)]
     ELSE h[i]]

\* The press edges owed after takePress(id) on the buttons before.
OwedAfterTake(h, before, id) ==
  [h EXCEPT ![id].owed = IF takePressResult(before, id) /\ @ > 0 THEN @ - 1 ELSE @]

\* The press edges owed after clearButtonEdges.
OwedAfterClear(h) == [i \in ButtonId |-> [h[i] EXCEPT !.owed = 0]]

\* ------------------------------------------------------------------------
\* Sound functions.  s is the program state as a record.
\* ------------------------------------------------------------------------
\* enqueueTone without the test for a full queue.
enqueueTone_NoFullTest(s, freq, duration) ==
  IF s.soundMuted THEN s
  ELSE [s EXCEPT !.toneQueue[s.toneTail] = [freq |-> freq, duration |-> duration],
                 !.toneTail = (s.toneTail + 1) % TONE_QUEUE_SIZE]

\* enqueueTone making room in a full queue by dropping the oldest event.
enqueueTone_DropOldest(s, freq, duration) ==
  LET nextTail == (s.toneTail + 1) % TONE_QUEUE_SIZE
  IN  IF s.soundMuted THEN s
      ELSE [s EXCEPT !.toneQueue[s.toneTail] = [freq |-> freq, duration |-> duration],
                     !.toneTail = nextTail,
                     !.toneHead = IF nextTail = s.toneHead
                                  THEN (s.toneHead + 1) % TONE_QUEUE_SIZE ELSE @]

enqueueTone(s, freq, duration) ==
  LET nextTail == (s.toneTail + 1) % TONE_QUEUE_SIZE
  IN  IF s.soundMuted THEN s
      ELSE IF nextTail = s.toneHead THEN s
      ELSE [s EXCEPT !.toneQueue[s.toneTail] = [freq |-> freq, duration |-> duration],
                     !.toneTail = nextTail]

\* setSoundMuted writing the flag only.
setSoundMuted_FlagOnly(s, muted) == [s EXCEPT !.soundMuted = muted]

setSoundMuted(s, muted) ==
  IF muted
  THEN [s EXCEPT !.soundMuted = TRUE, !.buzzer = 0, !.toneActive = FALSE,
                 !.toneHead = 0, !.toneTail = 0]
  ELSE [s EXCEPT !.soundMuted = FALSE]

beepButton(s) == enqueueTone(s, 1200, 26)
beepScore(s) == enqueueTone(s, 1600, 35)
beepHit(s) == enqueueTone(s, 240, 90)
beepStart(s) == enqueueTone(enqueueTone(enqueueTone(s, 500, 45), 850, 45), 1200, 65)
beepLose(s) == enqueueTone(enqueueTone(enqueueTone(s, 1000, 60), 700, 70), 430, 90)
beepWin(s) == enqueueTone(enqueueTone(enqueueTone(s, 800, 50), 1050, 50), 1400, 80)

\* updateSound starting the newest queued event instead of the oldest.
updateSound_Newest(s, now) ==
  IF s.soundMuted
  THEN [s EXCEPT !.buzzer = IF s.toneActive THEN 0 ELSE @,
                 !.toneActive = FALSE, !.toneHead = s.toneTail]
  ELSE LET s1 == IF s.toneActive /\ now >= s.toneEndTime
                 THEN [s EXCEPT !.buzzer = 0, !.toneActive = FALSE]
                 ELSE s
           last == (s1.toneTail + TONE_QUEUE_SIZE - 1) % TONE_QUEUE_SIZE
       IN  IF ~s1.toneActive /\ s1.toneHead # s1.toneTail
           THEN LET event == s1.toneQueue[last]
                IN  [s1 EXCEPT !.toneTail = last,
                               !.buzzer = event.freq,
                               !.toneEndTime = now + event.duration,
                               !.toneActive = TRUE]
           ELSE s1

\* updateSound starting the next event whether or not a tone is active.
updateSound_NoActiveTest(s, now) ==
  IF s.soundMuted
  THEN [s EXCEPT !.buzzer = IF s.toneActive THEN 0 ELSE @,
                 !.toneActive = FALSE, !.toneHead = s.toneTail]
  ELSE LET s1 == IF s.toneActive /\ now >= s.toneEndTime
                 THEN [s EXCEPT !.buzzer = 0, !.toneActive = FALSE]
                 ELSE s
       IN  IF s1.toneHead # s1.toneTail
           THEN LET event == s1.toneQueue[s1.toneHead]
                IN  [s1 EXCEPT !.toneHead = (s1.toneHead + 1) % TONE_QUEUE_SIZE,
                               !.buzzer = event.freq,
                               !.toneEndTime = now + event.duration,
                               !.toneActive = TRUE]
           ELSE s1

\* updateSound stopping a tone only after its end time has passed.
updateSound_Late(s, now) ==
  IF s.soundMuted
  THEN [s EXCEPT !.buzzer = IF s.toneActive THEN 0 ELSE @,
                 !.toneActive = FALSE, !.toneHead = s.toneTail]
  ELSE LET s1 == IF s.toneActive /\ now > s.toneEndTime
                 THEN [s EXCEPT !.buzzer = 0, !.toneActive = FALSE]
                 ELSE s
       IN  IF ~s1.toneActive /\ s1.toneHead # s1.toneTail
           THEN LET event == s1.toneQueue[s1.toneHead]
                IN  [s1 EXCEPT !.toneHead = (s1.toneHead + 1) % TONE_QUEUE_SIZE,
                               !.buzzer = event.freq,
                               !.toneEndTime = now + event.duration,
                               !.toneActive = TRUE]
           ELSE s1

\* updateSound stopping an ended tone only when another event is queued.
updateSound_StopOnNext(s, now) ==
  IF s.soundMuted
  THEN [s EXCEPT !.buzzer = IF s.toneActive THEN 0 ELSE @,
                 !.toneActive = FALSE, !.toneHead = s.toneTail]
  ELSE LET s1 == IF s.toneActive /\ now >= s.toneEndTime /\ s.toneHead # s.toneTail
                 THEN [s EXCEPT !.buzzer = 0, !.toneActive = FALSE]
                 ELSE s
       IN  IF ~s1.toneActive /\ s1.toneHead # s1.toneTail
           THEN LET event == s1.toneQueue[s1.toneHead]
                IN  [s1 EXCEPT !.toneHead = (s1.toneHead + 1) % TONE_QUEUE_SIZE,
                               !.buzzer = event.freq,
                               !.toneEndTime = now + event.duration,
                               !.toneActive = TRUE]
           ELSE s1

updateSound(s, now) ==
  IF s.soundMuted
  THEN [s EXCEPT !.buzzer = IF s.toneActive THEN 0 ELSE @,
                 !.toneActive = FALSE, !.toneHead = s.toneTail]
  ELSE LET s1 == IF s.toneActive /\ now >= s.toneEndTime
                 THEN [s EXCEPT !.buzzer = 0, !.toneActive = FALSE]
                 ELSE s
       IN  IF ~s1.toneActive /\ s1.toneHead # s1.toneTail
           THEN LET event == s1.toneQueue[s1.toneHead]
                IN  [s1 EXCEPT !.toneHead = (s1.toneHead + 1) % TONE_QUEUE_SIZE,
                               !.buzzer = event.freq,
                               !.toneEndTime = now + event.duration,
                               !.toneActive = TRUE]
           ELSE s1

\* ------------------------------------------------------------------------
\* History: the calls of one loop() iteration, each with what it found.
\* ------------------------------------------------------------------------
AnyEdge(btns) == \E i \in ButtonId : btns[i].press \/ btns[i].release

\* What a call finds: the session state, the score, whether any edge flag is set,
\* the pause flag, the press flag of PAUSE and the game that last initialised
\* gameState.
Found(s, fn, id) ==
  [fn |-> fn, id |-> id, state |-> s.systemState, score |-> s.score,
   edges |-> AnyEdge(s.buttons), paused |-> s.gamePaused,
   pausePress |-> s.buttons[B_PAUSE].press, owner |-> s.slotOwner]

Log(s, fn, id) == [s EXCEPT !.calls = Append(@, Found(s, fn, id))]

\* A finishGame call, with its arguments and the stored high score it finds.
LogFinish(s, win, message) ==
  [s EXCEPT !.calls = Append(@, [fn |-> "finishGame", id |-> s.currentGame,
                                 state |-> s.systemState, score |-> s.score,
                                 high |-> s.highScore[s.currentGame],
                                 win |-> win, message |-> message])]

\* ------------------------------------------------------------------------
\* C strings: a const char * is NULL or a sequence of characters; a char
\* array holds characters and terminators.
\* ------------------------------------------------------------------------
NUL == ""
NULLPTR == [null |-> TRUE, str |-> <<>>]
CStr(str) == [null |-> FALSE, str |-> str]

\* strncpy(dst, src, n): the first n characters of src, padded with NUL to n.
strncpy(dst, src, n) ==
  [i \in DOMAIN dst |-> IF i > n THEN dst[i]
                        ELSE IF i <= Len(src) THEN src[i] ELSE NUL]

\* The string a char array holds: the characters before the first NUL.
RECURSIVE StrOfFrom(_, _)
StrOfFrom(arr, i) ==
  IF i > Len(arr) \/ arr[i] = NUL THEN <<>> ELSE <<arr[i]>> \o StrOfFrom(arr, i + 1)
StrOf(arr) == StrOfFrom(arr, 1)

\* Variant: strncpy(lastMsg, src, sizeof(lastMsg)) and no terminator written.
SetLastMsg_Full(arr, src) == strncpy(arr, src, LASTMSG_SIZE)

\* lastMsg after strncpy(lastMsg, src, sizeof(lastMsg) - 1); lastMsg[sizeof(lastMsg) - 1] = '\0'
SetLastMsg(arr, src) ==
  [strncpy(arr, src, LASTMSG_SIZE - 1) EXCEPT ![LASTMSG_SIZE] = NUL]

MSG_GAME_OVER == <<"G", "a", "m", "e", " ", "o", "v", "e", "r">>
MSG_WIN == <<"W", "i", "n">>
LastMsgInit == [i \in 1 .. LASTMSG_SIZE |-> IF i <= Len(MSG_GAME_OVER) THEN MSG_GAME_OVER[i] ELSE NUL]

\* ------------------------------------------------------------------------
\* The games, as the session sees them.  A game's own state (gameState) is
\* not modelled here: what its update does to the session state is, with the
\* outcome of its rules left open.  (Minesweeper's own state and rules are
\* modelled further down, for SpecMines.)
\* ------------------------------------------------------------------------
\* The pause handling at the top of a game's update function:
\*   "return"  a PAUSE press toggles gamePaused and the function returns
\*   "fall"    a PAUSE press toggles gamePaused and the function goes on
\*   "none"    the game has no pause: PAUSE is one of its action buttons
PauseKind(id) ==
  CASE id = GAME_SNAKE_WALL -> "fall"
    [] id = GAME_SNAKE_WRAP -> "fall"
    [] id = GAME_TETRIS -> "none"
    [] id = GAME_FLAPPY_EASY -> "none"
    [] id = GAME_FLAPPY_HARD -> "none"
    [] id = GAME_ASTEROIDS_HARD -> "none"
    [] id = GAME_PACMAN_EASY -> "return"
    [] id = GAME_PACMAN_HARD -> "return"
    [] id = GAME_SPACE_SHOOTER -> "none"
    [] id = GAME_BREAKOUT -> "return"
    [] id = GAME_TTT_AI -> "none"
    [] id = GAME_TTT_2P -> "none"
    [] id = GAME_PONG -> "return"
    [] id = GAME_TUG -> "none"
    [] id = GAME_CHECKERS_AI -> "none"
    [] id = GAME_CHECKERS_2P -> "none"
    [] id = GAME_MINESWEEPER -> "none"
    [] id = GAME_DINO -> "fall"

\* The buttons the game's logic reads with takePress.
GameTakes(id) ==
  CASE id = GAME_SNAKE_WALL -> {B_UP, B_DOWN, B_LEFT, B_RIGHT}
    [] id = GAME_SNAKE_WRAP -> {B_UP, B_DOWN, B_LEFT, B_RIGHT}
    [] id = GAME_TETRIS -> {B_LEFT, B_RIGHT, B_PAUSE, B_DOWN}
    [] id = GAME_FLAPPY_EASY -> {B_UP, B_PAUSE}
    [] id = GAME_FLAPPY_HARD -> {B_UP, B_PAUSE}
    [] id = GAME_ASTEROIDS_HARD -> {B_UP, B_PAUSE}
    [] id = GAME_PACMAN_EASY -> {B_UP, B_DOWN, B_LEFT, B_RIGHT}
    [] id = GAME_PACMAN_HARD -> {B_UP, B_DOWN, B_LEFT, B_RIGHT}
    [] id = GAME_SPACE_SHOOTER -> {B_UP, B_PAUSE}
    [] id = GAME_BREAKOUT -> {}
    [] id = GAME_TTT_AI -> {B_UP, B_DOWN, B_LEFT, B_RIGHT, B_PAUSE}
    [] id = GAME_TTT_2P -> {B_UP, B_DOWN, B_LEFT, B_RIGHT, B_PAUSE}
    [] id = GAME_PONG -> {}
    [] id = GAME_TUG -> {B_UP, B_DOWN, B_LEFT, B_RIGHT, B_PAUSE}
    [] id = GAME_CHECKERS_AI -> {B_UP, B_DOWN, B_LEFT, B_RIGHT, B_PAUSE}
    [] id = GAME_CHECKERS_2P -> {B_UP, B_DOWN, B_LEFT, B_RIGHT, B_PAUSE}
    [] id = GAME_MINESWEEPER -> {B_UP, B_DOWN, B_LEFT, B_RIGHT}
    [] id = GAME_DINO -> {B_UP, B_DOWN}

\* The amounts the game's logic adds to score.
ScoreSteps(id) ==
  CASE id = GAME_SNAKE_WALL -> {10}
    [] id = GAME_SNAKE_WRAP -> {10}
    [] id = GAME_TETRIS -> {10, 20, 30, 40}
    [] id = GAME_FLAPPY_EASY -> {10}
    [] id = GAME_FLAPPY_HARD -> {1}
    [] id = GAME_ASTEROIDS_HARD -> {1}
    [] id = GAME_PACMAN_EASY -> {10, 100}
    [] id = GAME_PACMAN_HARD -> {1, 25, 100}
    [] id = GAME_SPACE_SHOOTER -> {1}
    [] id = GAME_BREAKOUT -> {1, 5}
    [] id = GAME_TTT_AI -> {1, 6}
    [] id = GAME_TTT_2P -> {1, 6}
    [] id = GAME_PONG -> {1, 20}
    [] id = GAME_TUG -> {1}
    [] id = GAME_CHECKERS_AI -> {10}
    [] id = GAME_CHECKERS_2P -> {10}
    [] id = GAME_MINESWEEPER -> {1}
    [] id = GAME_DINO -> {1}

\* What the game's logic can add to the score after its finishGame call, in the
\* same update: tetrisUpdate drops the piece a second time when the timed drop
\* is due in the iteration of a soft drop, and that drop locks the piece and
\* clears lines again.
LateSteps(id) == IF id = GAME_TETRIS THEN ScoreSteps(id) ELSE {}

\* The finishGame(win, message) calls of the game's logic.
Finishes(id) ==
  CASE id = GAME_SNAKE_WALL -> <<[win |-> FALSE, msg |-> <<"H", "i", "t", " ", "w", "a", "l", "l">>],
            [win |-> FALSE, msg |-> <<"H", "i", "t", " ", "b", "o", "d", "y">>],
            [win |-> TRUE, msg |-> <<"B", "o", "a", "r", "d", " ", "f", "u", "l", "l">>]>>
    [] id = GAME_SNAKE_WRAP -> <<[win |-> FALSE, msg |-> <<"H", "i", "t", " ", "b", "o", "d", "y">>],
            [win |-> TRUE, msg |-> <<"B", "o", "a", "r", "d", " ", "f", "u", "l", "l">>]>>
    [] id = GAME_TETRIS -> <<[win |-> FALSE, msg |-> <<"S", "t", "a", "c", "k", "e", "d", " ", "o", "u", "t">>]>>
    [] id = GAME_FLAPPY_EASY -> <<[win |-> FALSE, msg |-> <<"C", "r", "a", "s", "h", "e", "d">>],
            [win |-> FALSE, msg |-> <<"H", "i", "t", " ", "p", "i", "p", "e">>]>>
    [] id = GAME_FLAPPY_HARD -> <<[win |-> FALSE, msg |-> <<"C", "r", "a", "s", "h", "e", "d">>],
            [win |-> FALSE, msg |-> <<"H", "i", "t", " ", "p", "i", "p", "e">>]>>
    [] id = GAME_ASTEROIDS_HARD -> <<[win |-> FALSE, msg |-> <<"S", "h", "i", "p", " ", "h", "i", "t">>]>>
    [] id = GAME_PACMAN_EASY -> <<[win |-> FALSE, msg |-> <<"C", "a", "u", "g", "h", "t">>]>>
    [] id = GAME_PACMAN_HARD -> <<[win |-> FALSE, msg |-> <<"C", "a", "u", "g", "h", "t">>],
            [win |-> TRUE, msg |-> <<"W", "o", "r", "l", "d", " ", "4", " ", "c", "l", "e", "a", "r">>]>>
    [] id = GAME_SPACE_SHOOTER -> <<[win |-> FALSE, msg |-> <<"L", "i", "n", "e", " ", "b", "r", "o", "k", "e", "n">>],
            [win |-> FALSE, msg |-> <<"S", "h", "o", "t", " ", "d", "o", "w", "n">>]>>
    [] id = GAME_BREAKOUT -> <<[win |-> FALSE, msg |-> <<"M", "i", "s", "s", "e", "d", " ", "b", "a", "l", "l">>]>>
    [] id = GAME_TTT_AI -> <<[win |-> TRUE, msg |-> <<"Y", "o", "u", " ", "w", "i", "n">>],
            [win |-> FALSE, msg |-> <<"A", "I", " ", "w", "i", "n", "s">>],
            [win |-> FALSE, msg |-> <<"D", "r", "a", "w">>]>>
    [] id = GAME_TTT_2P -> <<[win |-> TRUE, msg |-> <<"X", " ", "w", "i", "n", "s">>],
            [win |-> TRUE, msg |-> <<"O", " ", "w", "i", "n", "s">>],
            [win |-> FALSE, msg |-> <<"D", "r", "a", "w">>]>>
    [] id = GAME_PONG -> <<[win |-> FALSE, msg |-> <<"M", "i", "s", "s", "e", "d", " ", "p", "a", "d", "d", "l", "e">>]>>
    [] id = GAME_TUG -> <<[win |-> TRUE, msg |-> <<"P", "1", " ", "w", "i", "n", "s">>],
            [win |-> TRUE, msg |-> <<"P", "2", " ", "w", "i", "n", "s">>]>>
    [] id = GAME_CHECKERS_AI -> <<[win |-> FALSE, msg |-> <<"P", "l", "a", "y", "e", "r", " ", "2", " ", "w", "i", "n", "s">>],
            [win |-> TRUE, msg |-> <<"P", "l", "a", "y", "e", "r", " ", "1", " ", "w", "i", "n", "s">>],
            [win |-> FALSE, msg |-> <<"P", "2", " ", "w", "i", "n", "s", " ", "(", "n", "o", " ", "m", "o", "v", "e", "s", ")">>],
            [win |-> TRUE, msg |-> <<"P", "1", " ", "w", "i", "n", "s", " ", "(", "n", "o", " ", "m", "o", "v", "e", "s", ")">>]>>
    [] id = GAME_CHECKERS_2P -> <<[win |-> FALSE, msg |-> <<"P", "l", "a", "y", "e", "r", " ", "2", " ", "w", "i", "n", "s">>],
            [win |-> TRUE, msg |-> <<"P", "l", "a", "y", "e", "r", " ", "1", " ", "w", "i", "n", "s">>],
            [win |-> FALSE, msg |-> <<"P", "2", " ", "w", "i", "n", "s", " ", "(", "n", "o", " ", "m", "o", "v", "e", "s", ")">>],
            [win |-> TRUE, msg |-> <<"P", "1", " ", "w", "i", "n", "s", " ", "(", "n", "o", " ", "m", "o", "v", "e", "s", ")">>]>>
    [] id = GAME_MINESWEEPER -> <<[win |-> FALSE, msg |-> <<"H", "i", "t", " ", "a", " ", "m", "i", "n", "e", "!">>],
            [win |-> TRUE, msg |-> <<"A", "l", "l", " ", "c", "l", "e", "a", "r", "!">>]>>
    [] id = GAME_DINO -> <<[win |-> FALSE, msg |-> <<"O", "u", "c", "h", "!">>]>>

\* The games whose init function sets score = 0 itself.
InitResetsScore ==
  {GAME_PONG, GAME_TUG, GAME_CHECKERS_AI, GAME_CHECKERS_2P, GAME_MINESWEEPER, GAME_DINO}

\* ------------------------------------------------------------------------
\* State management
\* ------------------------------------------------------------------------
\* Variant: returnToMenu without clearButtonEdges().
returnToMenu_NoClear(s) ==
  [Log(s, "returnToMenu", 0) EXCEPT !.systemState = STATE_MENU,
                                    !.gamePaused = FALSE,
                                    !.menuMuteComboLatched = FALSE]

\* Variant: returnToMenu without gamePaused = false.
returnToMenu_KeepPause(s) ==
  [Log(s, "returnToMenu", 0) EXCEPT !.systemState = STATE_MENU,
                                    !.menuMuteComboLatched = FALSE,
                                    !.buttons = clearButtonEdges(@)]

returnToMenu(s) ==
  [Log(s, "returnToMenu", 0) EXCEPT !.systemState = STATE_MENU,
                                    !.gamePaused = FALSE,
                                    !.menuMuteComboLatched = FALSE,
                                    !.buttons = clearButtonEdges(@)]

\* Variants: the high score never updated; the high score overwritten by every round.
NewHighScore_Keep(old, sc) == old
NewHighScore_Last(old, sc) == sc

\* if (score > highScore[currentGame]) highScore[currentGame] = score;
NewHighScore(old, sc) == IF sc > old THEN sc ELSE old

\* Variant: finishGame without "if (systemState != STATE_PLAYING) return;".
finishGame_NoGuard(s, win, message, ms) ==
  LET s0 == LogFinish(s, win, message)
      src == IF message.null
             THEN (IF win THEN MSG_WIN ELSE MSG_GAME_OVER)
             ELSE message.str
      s1 == [s0 EXCEPT !.highScore[s.currentGame] = NewHighScore(@, s.score),
                       !.lastWin = win,
                       !.lastMsg = SetLastMsg(@, src),
                       !.systemState = STATE_GAME_OVER,
                       !.gameOverStartTime = ms,
                       !.buttons = clearButtonEdges(@)]
  IN  IF win THEN beepWin(s1) ELSE beepLose(s1)

\* finishGame(win, message); ms is what millis() returns in it.
finishGame(s, win, message, ms) ==
  LET s0 == LogFinish(s, win, message)
  IN  IF s.systemState # STATE_PLAYING THEN s0
      ELSE LET src == IF message.null
                      THEN (IF win THEN MSG_WIN ELSE MSG_GAME_OVER)
                      ELSE message.str
               s1 == [s0 EXCEPT !.highScore[s.currentGame] = NewHighScore(@, s.score),
                                !.lastWin = win,
                                !.lastMsg = SetLastMsg(@, src),
                                !.systemState = STATE_GAME_OVER,
                                !.gameOverStartTime = ms,
                                !.buttons = clearButtonEdges(@)]
           IN  IF win THEN beepWin(s1) ELSE beepLose(s1)

\* initGame(id): the game's init function; an id outside the enum does nothing.
initGame(s, id) ==
  IF id \notin GameId THEN s
  ELSE [Log(s, "initGame", id) EXCEPT
          !.slotOwner = id,
          !.score = IF id \in InitResetsScore THEN 0 ELSE @,
          !.scoreEvents = 0]

\* Variant: startGame without initGame(id).
startGame_NoInit(s, id) ==
  LET s1 == [Log(s, "startGame", id) EXCEPT
               !.currentGame = id,
               !.score = 0,
               !.lastWin = FALSE,
               !.gamePaused = FALSE,
               !.menuMuteComboLatched = FALSE,
               !.lastMsg = SetLastMsg(@, MSG_GAME_OVER),
               !.systemState = STATE_PLAYING,
               !.buttons = clearButtonEdges(@),
               !.scoreEvents = 0]
  IN  beepStart(s1)

\* Variant: startGame without clearButtonEdges().
startGame_NoClear(s, id) ==
  LET s1 == [Log(s, "startGame", id) EXCEPT
               !.currentGame = id,
               !.score = 0,
               !.lastWin = FALSE,
               !.gamePaused = FALSE,
               !.menuMuteComboLatched = FALSE,
               !.lastMsg = SetLastMsg(@, MSG_GAME_OVER),
               !.systemState = STATE_PLAYING]
  IN  beepStart(initGame(s1, id))

startGame(s, id) ==
  LET s1 == [Log(s, "startGame", id) EXCEPT
               !.currentGame = id,
               !.score = 0,
               !.lastWin = FALSE,
               !.gamePaused = FALSE,
               !.menuMuteComboLatched = FALSE,
               !.lastMsg = SetLastMsg(@, MSG_GAME_OVER),
               !.systemState = STATE_PLAYING,
               !.buttons = clearButtonEdges(@)]
  IN  beepStart(initGame(s1, id))

\* ------------------------------------------------------------------------
\* Game router: updateGame.  c is the outcome of the game's rules in this
\* iteration: the presses its logic takes, what it adds to the score, the
\* finishGame call it makes (0: none) and the sound it queues.
\* ------------------------------------------------------------------------
TakeAll(btns, taken) ==
  [i \in ButtonId |-> IF i \in taken THEN [btns[i] EXCEPT !.press = FALSE] ELSE btns[i]]

GameBeep(s, beep) ==
  CASE beep = "button" -> beepButton(s)
    [] beep = "score" -> beepScore(s)
    [] beep = "hit" -> beepHit(s)
    [] OTHER -> s

\* The game logic proper: what follows the pause handling.
GameLogic(s, id, c, ms) ==
  LET s1 == [Log(s, "advance", id) EXCEPT !.buttons = TakeAll(@, c.taken)]
      s2 == IF c.delta > 0
            THEN [s1 EXCEPT !.score = @ + c.delta, !.scoreEvents = @ + 1]
            ELSE s1
      s3 == GameBeep(s2, c.beep)
      s4 == IF c.fin = 0 THEN s3
            ELSE finishGame(s3, Finishes(id)[c.fin].win, CStr(Finishes(id)[c.fin].msg), ms)
  IN  IF c.late > 0
      THEN [s4 EXCEPT !.score = @ + c.late, !.scoreEvents = @ + 1]
      ELSE s4

\* if (takePress(B_PAUSE)) { gamePaused = !gamePaused; beepButton(); }
PauseToggle(s) ==
  beepButton([s EXCEPT !.buttons = takePress(@, B_PAUSE), !.gamePaused = ~@])

\* Variant: updateGame of games that go on to their logic while paused.
updateGame_NoPauseTest(s, id, c, ms) ==
  IF id \notin GameId THEN s
  ELSE
  LET s0 == Log(s, "updateGame", id)
      hit == takePressResult(s0.buttons, B_PAUSE)
  IN  CASE PauseKind(id) = "return" ->
             IF hit THEN PauseToggle(s0) ELSE GameLogic(s0, id, c, ms)
        [] PauseKind(id) = "fall" ->
             GameLogic(IF hit THEN PauseToggle(s0) ELSE s0, id, c, ms)
        [] OTHER -> GameLogic(s0, id, c, ms)

updateGame(s, id, c, ms) ==
  IF id \notin GameId THEN s
  ELSE
  LET s0 == Log(s, "updateGame", id)
      hit == takePressResult(s0.buttons, B_PAUSE)
  IN  CASE PauseKind(id) = "return" ->
             IF hit THEN PauseToggle(s0)
             ELSE IF s0.gamePaused THEN s0
             ELSE GameLogic(s0, id, c, ms)
        [] PauseKind(id) = "fall" ->
             LET s1 == IF hit THEN PauseToggle(s0) ELSE s0
             IN  IF s1.gamePaused THEN s1 ELSE GameLogic(s1, id, c, ms)
        [] OTHER -> GameLogic(s0, id, c, ms)

\* Variant: drawGame whose default branch does nothing.
drawGame_NoDefault(fb, id, cell) ==
  IF id \notin GameId THEN fb
  ELSE setPixel(clearFrame(0), cell[1], cell[2], 1)

\* drawGame(id): every draw function of a game clears the frame and then sets
\* the pixels of its scene, here one pixel at cell; the default branch of the
\* switch is clearFrame().
drawGame(fb, id, cell) ==
  IF id \notin GameId THEN clearFrame(0)
  ELSE setPixel(clearFrame(0), cell[1], cell[2], 1)

\* ------------------------------------------------------------------------
\* loop()
\* ------------------------------------------------------------------------
\* Variant: (menuIndex - 1) % GAME_COUNT, whose C remainder is -1 at 0.
MenuPrev_Rem(idx) == IF idx = 0 THEN 0 - 1 ELSE (idx - 1) % GAME_COUNT

\* menuIndex = (menuIndex + GAME_COUNT - 1) % GAME_COUNT, and + 1
MenuPrev(idx) == (idx + GAME_COUNT - 1) % GAME_COUNT
MenuNext(idx) == (idx + 1) % GAME_COUNT

\* Variant: > for >=.
GameOverElapsed_Strict(now, start) == U32Sub(now, start) > GAME_OVER_DELAY_MS

\* now - gameOverStartTime >= Timing::GAME_OVER_DELAY_MS
GameOverElapsed(now, start) == U32Sub(now, start) >= GAME_OVER_DELAY_MS

\* Variant: SELECT taken, but the round not cancelled.
LoopInput_NoCancel(s, now, raw) ==
  LET s1 == Log([s EXCEPT !.calls = <<>>, !.buttons = updateButtons(@, now, raw)],
                "updateButtons", 0)
  IN  [s1 EXCEPT !.buttons = takePress(@, B_SELECT)]

\* updateButtons(now), then the global SELECT handling.
LoopInput(s, now, raw) ==
  LET s1 == Log([s EXCEPT !.calls = <<>>, !.buttons = updateButtons(@, now, raw)],
                "updateButtons", 0)
      sel == takePressResult(s1.buttons, B_SELECT)
      s2 == [s1 EXCEPT !.buttons = takePress(@, B_SELECT)]
  IN  IF sel /\ s2.systemState # STATE_MENU
      THEN returnToMenu(beepButton(s2))
      ELSE s2

LoopMenu(s) ==
  LET muteComboDown == isDown(s.buttons, B_LEFT) /\ isDown(s.buttons, B_RIGHT)
      s1 == IF muteComboDown /\ ~s.menuMuteComboLatched
            THEN LET a == setSoundMuted(s, ~s.soundMuted)
                     b == IF ~a.soundMuted THEN beepButton(a) ELSE a
                 IN  [b EXCEPT !.menuMuteComboLatched = TRUE,
                               !.buttons = clearButtonEdges(@)]
            ELSE s
      s2 == IF ~muteComboDown THEN [s1 EXCEPT !.menuMuteComboLatched = FALSE] ELSE s1
      s3 == IF takePressResult(s2.buttons, B_UP)
            THEN beepButton([s2 EXCEPT !.buttons = takePress(@, B_UP),
                                       !.menuIndex = MenuPrev(@)])
            ELSE s2
      s4 == IF takePressResult(s3.buttons, B_DOWN)
            THEN beepButton([s3 EXCEPT !.buttons = takePress(@, B_DOWN),
                                       !.menuIndex = MenuNext(@)])
            ELSE s3
  IN  IF takePressResult(s4.buttons, B_PAUSE)
      THEN startGame(beepButton([s4 EXCEPT !.buttons = takePress(@, B_PAUSE)]),
                     s4.menuIndex)
      ELSE s4

\* Variant: a PAUSE press in game over starts the game again.
LoopGameOver_Restart(s, now) ==
  IF GameOverElapsed(now, s.gameOverStartTime)
  THEN returnToMenu(beepButton(s))
  ELSE IF takePressResult(s.buttons, B_PAUSE)
  THEN startGame(beepButton([s EXCEPT !.buttons = takePress(@, B_PAUSE)]), s.currentGame)
  ELSE IF takePressResult(s.buttons, B_SELECT)
  THEN returnToMenu(beepButton([s EXCEPT !.buttons = takePress(@, B_SELECT)]))
  ELSE s

\* Variant: any pressed button dismisses the game-over screen.
LoopGameOver_AnyKey(s, now) ==
  IF GameOverElapsed(now, s.gameOverStartTime) \/ \E b \in ButtonId : s.buttons[b].press
  THEN returnToMenu(beepButton(s))
  ELSE s

LoopGameOver(s, now) ==
  IF GameOverElapsed(now, s.gameOverStartTime)
  THEN returnToMenu(beepButton(s))
  ELSE IF takePressResult(s.buttons, B_PAUSE)
  THEN returnToMenu(beepButton([s EXCEPT !.buttons = takePress(@, B_PAUSE)]))
  ELSE IF takePressResult(s.buttons, B_SELECT)
  THEN returnToMenu(beepButton([s EXCEPT !.buttons = takePress(@, B_SELECT)]))
  ELSE s

\* The state-specific branch of loop().
LoopState(s, now, c, ms) ==
  IF s.systemState = STATE_MENU THEN LoopMenu(s)
  ELSE IF s.systemState = STATE_PLAYING THEN updateGame(s, s.currentGame, c, ms)
  ELSE LoopGameOver(s, now)

\* Variant: the matrix timestamp advances by one interval per render.
LoopMatrix_CatchUp(s, now) ==
  IF U32Sub(now, s.lastMatrixMs) >= MATRIX_FRAME_MS
  THEN LET s1 == [s EXCEPT !.lastMatrixMs = @ + MATRIX_FRAME_MS]
           s2 == IF s1.systemState = STATE_MENU THEN Log(s1, "drawMenuMatrix", 0)
                 ELSE IF s1.systemState = STATE_PLAYING
                 THEN Log(Log(s1, "drawGame", s1.currentGame), "drawFlashingPauseBorder", 0)
                 ELSE Log(s1, "drawGameOverMatrix", 0)
       IN  Log(s2, "showFrame", 0)
  ELSE s

\* The two frame-rate limited render blocks of loop().
LoopMatrix(s, now) ==
  IF U32Sub(now, s.lastMatrixMs) >= MATRIX_FRAME_MS
  THEN LET s1 == [s EXCEPT !.lastMatrixMs = now]
           s2 == IF s1.systemState = STATE_MENU THEN Log(s1, "drawMenuMatrix", 0)
                 ELSE IF s1.systemState = STATE_PLAYING
                 THEN Log(Log(s1, "drawGame", s1.currentGame), "drawFlashingPauseBorder", 0)
                 ELSE Log(s1, "drawGameOverMatrix", 0)
       IN  Log(s2, "showFrame", 0)
  ELSE s

LoopOled(s, now) ==
  IF U32Sub(now, s.lastOledMs) >= OLED_FRAME_MS
  THEN LET s1 == [s EXCEPT !.lastOledMs = now]
       IN  IF s1.systemState = STATE_MENU THEN Log(s1, "drawMenuOLED", 0)
           ELSE IF s1.systemState = STATE_PLAYING THEN Log(s1, "drawPlayingOLED", 0)
           ELSE Log(s1, "drawGameOverOLED", 0)
  ELSE s

\* The ring of the tone queue turned so that toneHead is slot 0, the slots that
\* hold no queued tone blanked.
RebaseRing(s) ==
  LET n == (s.toneTail + TONE_QUEUE_SIZE - s.toneHead) % TONE_QUEUE_SIZE
  IN  [s EXCEPT !.toneQueue = [i \in 0 .. (TONE_QUEUE_SIZE - 1) |->
                                 IF i < n THEN s.toneQueue[(s.toneHead + i) % TONE_QUEUE_SIZE]
                                 ELSE [freq |-> 0, duration |-> 0]],
                !.toneHead = 0,
                !.toneTail = n]

\* Every timestamp relative to "now", which becomes the new origin.
Rebase(s, now) ==
  [RebaseRing(s) EXCEPT !.buttons = RebaseButtons(@, now),
            !.toneEndTime = RebaseStamp(@, now, 0),
            !.gameOverStartTime = RebaseStamp(@, now, GAME_OVER_DELAY_MS),
            !.lastMatrixMs = RebaseStamp(@, now, MATRIX_FRAME_MS),
            !.lastOledMs = RebaseStamp(@, now, OLED_FRAME_MS)]

\* Variant: the tone queue is pumped before the state-specific branch.
LoopRest_SoundFirst(s, now, c, ms) ==
  LET s1 == updateSound(Log(s, "updateSound", 0), now)
      s2 == LoopState(s1, now, c, ms)
  IN  Rebase(LoopOled(LoopMatrix(s2, now), now), now)

\* One iteration of loop() from the state after the input handling.
LoopRest(s, now, c, ms) ==
  LET s1 == LoopState(s, now, c, ms)
      s2 == updateSound(Log(s1, "updateSound", 0), now)
  IN  Rebase(LoopOled(LoopMatrix(s2, now), now), now)

\* The outcomes the rules of the running game can have in this iteration.
GameChoices(s, maxEvents) ==
  IF s.systemState # STATE_PLAYING
  THEN {[taken |-> {}, delta |-> 0, fin |-> 0, beep |-> "none", late |-> 0]}
  ELSE LET id == s.currentGame
           can == {i \in GameTakes(id) : s.buttons[i].press}
           steps == IF s.scoreEvents < maxEvents THEN ScoreSteps(id) ELSE {}
       IN  {c \in [taken : SUBSET can, delta : {0} \cup steps,
                    fin : 0 .. Len(Finishes(id)), beep : {"none"},
                    late : {0} \cup (steps \cap LateSteps(id))] :
              c.late > 0 => c.fin # 0 /\ (c.delta > 0 => s.scoreEvents + 1 < maxEvents)}

\* ------------------------------------------------------------------------
\* Minesweeper.  g is gameState.minesweeper; board and revealed are indexed
\* [y][x] as in the source.
\* ------------------------------------------------------------------------
Coord == 0 .. 7
ZeroedMinesweeper ==
  [board |-> [y \in Coord |-> [x \in Coord |-> 0]],
   revealed |-> [y \in Coord |-> [x \in Coord |-> 0]],
   cursorX |-> 0, cursorY |-> 0, minesLeft |-> 0, cellsToReveal |-> 0,
   firstClick |-> FALSE]
NotPlacing == [pc |-> "idle", minesPlaced |-> 0, safeX |-> 0, safeY |-> 0]

\* minesweeperInit(): memset, cursor in the middle, no mines yet.
minesweeperInit(s) ==
  [s EXCEPT !.gameState = [ZeroedMinesweeper EXCEPT !.cursorX = 4, !.cursorY = 4,
                                                    !.minesLeft = MINE_COUNT,
                                                    !.cellsToReveal = 64 - MINE_COUNT,
                                                    !.firstClick = TRUE],
            !.score = 0]

\* Variant: only a cell that holds a mine is skipped.
SkipCell_MineOnly(board, x, y, safeX, safeY) == board[y][x] = MINE

\* The test of the placement loop: already a mine, or the safe cell.
SkipCell(board, x, y, safeX, safeY) ==
  board[y][x] = MINE \/ (x = safeX /\ y = safeY)

\* The neighbours of a cell in the order of the loops over dy and dx: <<dx, dy>>.
Offsets ==
  <<<<0 - 1, 0 - 1>>, <<0, 0 - 1>>, <<1, 0 - 1>>, <<0 - 1, 0>>,
    <<1, 0>>, <<0 - 1, 1>>, <<0, 1>>, <<1, 1>>>>

\* The mines among the neighbours of (x, y) from the k-th neighbour on.
RECURSIVE CountFrom(_, _, _, _)
CountFrom(board, x, y, k) ==
  IF k > Len(Offsets) THEN 0
  ELSE LET nx == x + Offsets[k][1]
           ny == y + Offsets[k][2]
       IN  (IF nx >= 0 /\ nx < 8 /\ ny >= 0 /\ ny < 8 /\ board[ny][nx] = MINE
            THEN 1 ELSE 0) + CountFrom(board, x, y, k + 1)

\* The second loop of minesweeperPlaceMines from cell i on (row by row), in
\* place: a cell that is not a mine gets the count of its neighbours.
RECURSIVE NumbersFrom(_, _)
NumbersFrom(board, i) ==
  IF i >= 64 THEN board
  ELSE LET x == i % 8
           y == i \div 8
       IN  IF board[y][x] = MINE THEN NumbersFrom(board, i + 1)
           ELSE NumbersFrom([board EXCEPT ![y][x] = CountFrom(board, x, y, 1)], i + 1)

\* minesweeperFloodFill(x, y) and its loop over the neighbours from the k-th on.
RECURSIVE minesweeperFloodFill(_, _, _)
RECURSIVE FloodNeighbours(_, _, _, _)
minesweeperFloodFill(s, x, y) ==
  IF x < 0 \/ x >= 8 \/ y < 0 \/ y >= 8 THEN s
  ELSE IF s.gameState.revealed[y][x] # 0 THEN s
  ELSE LET s1 == [s EXCEPT !.gameState.revealed[y][x] = 1,
                           !.gameState.cellsToReveal = (@ + 255) % 256,
                           !.score = @ + 1,
                           !.scoreEvents = @ + 1]
       IN  IF s1.gameState.board[y][x] = 0 THEN FloodNeighbours(s1, x, y, 1) ELSE s1

FloodNeighbours(s, x, y, k) ==
  IF k > Len(Offsets) THEN s
  ELSE FloodNeighbours(minesweeperFloodFill(s, x + Offsets[k][1], y + Offsets[k][2]),
                       x, y, k + 1)

\* The long press on a hidden cell, after the mines are placed: a mine ends
\* the round, a safe cell is revealed with its empty surroundings.
RevealCell(s, ms) ==
  LET g == s.gameState
      cx == g.cursorX
      cy == g.cursorY
  IN  IF g.board[cy][cx] = MINE
      THEN finishGame([s EXCEPT !.gameState.revealed =
                         [y \in Coord |-> [x \in Coord |->
                            IF g.board[y][x] = MINE THEN 1 ELSE g.revealed[y][x]]]],
                      FALSE, CStr(Finishes(GAME_MINESWEEPER)[1].msg), ms)
      ELSE LET s1 == minesweeperFloodFill(beepScore(s), cx, cy)
           IN  IF s1.gameState.cellsToReveal = 0
               THEN finishGame(s1, TRUE, CStr(Finishes(GAME_MINESWEEPER)[2].msg), ms)
               ELSE s1

\* The short press: toggle the flag of the cell under the cursor.
ToggleFlag(s) ==
  LET g == s.gameState
      cx == g.cursorX
      cy == g.cursorY
  IN  IF g.revealed[cy][cx] = 0
      THEN LET s1 == beepButton(s)
           IN  IF g.minesLeft > 0
               THEN [s1 EXCEPT !.gameState.revealed[cy][cx] = 2,
                               !.gameState.minesLeft = @ - 1]
               ELSE s1
      ELSE IF g.revealed[cy][cx] = 2
      THEN [beepButton(s) EXCEPT !.gameState.revealed[cy][cx] = 0,
                                 !.gameState.minesLeft = (@ + 1) % 256]
      ELSE s

MoveCursor(s, id, axis, step) ==
  IF takePressResult(s.buttons, id)
  THEN beepButton([s EXCEPT !.buttons = takePress(@, id),
                            !.gameState[axis] = (@ + step) % 8])
  ELSE s

\* minesweeperUpdate(now) up to the call of minesweeperPlaceMines, which it
\* enters (place.pc = "placing") at the first long press on a hidden cell.
minesweeperUpdate(s, now) ==
  LET s1 == MoveCursor(s, B_UP, "cursorY", 7)
      s2 == MoveCursor(s1, B_DOWN, "cursorY", 1)
      s3 == MoveCursor(s2, B_LEFT, "cursorX", 7)
      s4 == MoveCursor(s3, B_RIGHT, "cursorX", 1)
      cx == s4.gameState.cursorX
      cy == s4.gameState.cursorY
  IN  IF isDown(s4.buttons, B_PAUSE)
      THEN IF ~s4.pauseWasPressed
           THEN [s4 EXCEPT !.pausePressStart = now, !.pauseWasPressed = TRUE]
           ELSE IF U32Sub(now, s4.pausePressStart) >= LONG_PRESS_MS
           THEN IF s4.gameState.revealed[cy][cx] = 0
                THEN IF s4.gameState.firstClick
                     THEN [s4 EXCEPT !.place = [pc |-> "placing", minesPlaced |-> 0,
                                                safeX |-> cx, safeY |-> cy]]
                     ELSE [RevealCell(s4, now) EXCEPT !.pauseWasPressed = FALSE]
                ELSE [s4 EXCEPT !.pauseWasPressed = FALSE]
           ELSE s4
      ELSE IF s4.pauseWasPressed
      THEN [(IF U32Sub(now, s4.pausePressStart) < LONG_PRESS_MS THEN ToggleFlag(s4) ELSE s4)
              EXCEPT !.pauseWasPressed = FALSE]
      ELSE s4

\* minesweeperUpdate from the return of minesweeperPlaceMines on.
minesweeperUpdate_Resume(s, now) ==
  [RevealCell([s EXCEPT !.gameState.firstClick = FALSE, !.place = NotPlacing], now)
     EXCEPT !.pauseWasPressed = FALSE]

\* The state-specific branch of loop() with Minesweeper as the game.
MinesState(s, now) ==
  IF s.systemState = STATE_MENU
  THEN LET s1 == LoopMenu(s)
       IN  IF s1.systemState = STATE_PLAYING /\ s1.currentGame = GAME_MINESWEEPER
           THEN minesweeperInit(s1)
           ELSE s1
  ELSE IF s.systemState = STATE_PLAYING
  THEN minesweeperUpdate(Log(s, "updateGame", s.currentGame), now)
  ELSE LoopGameOver(s, now)

\* The rest of the iteration, and every timestamp relative to the new "now".
MinesRest(s, now) ==
  LET s1 == updateSound(Log(s, "updateSound", 0), now)
  IN  [Rebase(LoopOled(LoopMatrix(s1, now), now), now)
         EXCEPT !.pausePressStart = RebaseStamp(@, now, LONG_PRESS_MS)]

\* ------------------------------------------------------------------------
\* Snake.  g is gameState.snake; body holds the cells (x[i], y[i]) for
\* i < length, head first (the entries of x[] and y[] from length on are never
\* read), so that Len(body) is the field length.
\* ------------------------------------------------------------------------
snakeHasSegment(g, x, y) == \E i \in 1 .. Len(g.body) : g.body[i] = <<x, y>>

\* snakePlaceFood() with random(0, 8) naming the cells of rnd: the results it
\* can have.  An attempt that names a cell off the snake puts the food there;
\* when all the 100 attempts name cells on the snake the food goes to (0, 0).
snakePlaceFood(g, rnd) ==
  {[g EXCEPT !.foodX = c[1], !.foodY = c[2]] : c \in {d \in rnd : ~snakeHasSegment(g, d[1], d[2])}}
    \cup (IF \E d \in rnd : snakeHasSegment(g, d[1], d[2])
          THEN {[g EXCEPT !.foodX = 0, !.foodY = 0]} ELSE {})

\* snakeInit(wrapMode) up to the call of snakePlaceFood; food is nowhere yet.
snakeInit(wrapMode, ms) ==
  [body |-> <<<<4, 4>>, <<3, 4>>, <<2, 4>>>>, dx |-> 1, dy |-> 0,
   nextDx |-> 1, nextDy |-> 0, foodX |-> 0, foodY |-> 0, wrapMode |-> wrapMode,
   moveInterval |-> SNAKE_INIT_MS, lastMove |-> ms]

\* Variant: a turn is refused when it reverses the queued direction.
SnakeTurn_Queued(s, id, ndx, ndy) ==
  IF ~takePressResult(s.buttons, id) THEN s
  ELSE LET s1 == [s EXCEPT !.buttons = takePress(@, id)]
       IN  IF (ndy # 0 /\ s.gameState.nextDy = 0 - ndy) \/ (ndx # 0 /\ s.gameState.nextDx = 0 - ndx)
           THEN s1
           ELSE beepButton([s1 EXCEPT !.gameState.nextDx = ndx, !.gameState.nextDy = ndy])

\* if (takePress(id) && <the direction moved in is not the opposite of
\* (ndx, ndy)>) { nextDx = ndx; nextDy = ndy; beepButton(); }
\* The source tests the one component that is not 0 in (ndx, ndy).
SnakeTurn(s, id, ndx, ndy) ==
  IF ~takePressResult(s.buttons, id) THEN s
  ELSE LET s1 == [s EXCEPT !.buttons = takePress(@, id)]
       IN  IF (ndy # 0 /\ s.gameState.dy = 0 - ndy) \/ (ndx # 0 /\ s.gameState.dx = 0 - ndx)
           THEN s1
           ELSE beepButton([s1 EXCEPT !.gameState.nextDx = ndx, !.gameState.nextDy = ndy])

\* snakeUpdate(now) from the test of the move timer on: the states it can
\* leave.
snakeMove(s, now, rnd) ==
  LET g == s.gameState
      g1 == [g EXCEPT !.lastMove = now, !.dx = g.nextDx, !.dy = g.nextDy]
      rawX == g.body[1][1] + g1.dx
      rawY == g.body[1][2] + g1.dy
      newX == IF g.wrapMode THEN (rawX + 8) % 8 ELSE rawX
      newY == IF g.wrapMode THEN (rawY + 8) % 8 ELSE rawY
      s1 == [s EXCEPT !.gameState = g1]
      ateFood == newX = g.foodX /\ newY = g.foodY
      grown == ateFood /\ Len(g.body) < 64
      g2 == [g1 EXCEPT !.body = <<<<newX, newY>>>> \o
                                  (IF grown THEN g.body ELSE SubSeq(g.body, 1, Len(g.body) - 1))]
      s2 == [s EXCEPT !.gameState = g2]
      s3 == beepScore([s2 EXCEPT !.score = @ + 10, !.scoreEvents = @ + 1])
  IN  IF U32Sub(now, g.lastMove) < g.moveInterval THEN {s}
      ELSE IF ~g.wrapMode /\ (newX < 0 \/ newX > 7 \/ newY < 0 \/ newY > 7)
      THEN {finishGame(beepHit(s1), FALSE, CStr(<<"H", "i", "t", " ", "w", "a", "l", "l">>), now)}
      ELSE IF snakeHasSegment(g1, newX, newY)
      THEN {finishGame(beepHit(s1), FALSE, CStr(<<"H", "i", "t", " ", "b", "o", "d", "y">>), now)}
      ELSE IF ~ateFood THEN {s2}
      ELSE IF Len(g2.body) = 64
      THEN {finishGame(s3, TRUE, CStr(<<"B", "o", "a", "r", "d", " ", "f", "u", "l", "l">>), now)}
      ELSE {[s3 EXCEPT !.gameState = [f EXCEPT !.moveInterval = IF @ > 100 THEN @ - 10 ELSE @]] :
              f \in snakePlaceFood(g2, rnd)}

snakeUpdate(s, now, rnd) ==
  LET s0 == IF takePressResult(s.buttons, B_PAUSE) THEN PauseToggle(s) ELSE s
      s1 == SnakeTurn(s0, B_UP, 0, 0 - 1)
      s2 == SnakeTurn(s1, B_DOWN, 0, 1)
      s3 == SnakeTurn(s2, B_LEFT, 0 - 1, 0)
      s4 == SnakeTurn(s3, B_RIGHT, 1, 0)
  IN  IF s0.gamePaused THEN {s0} ELSE snakeMove(s4, now, rnd)

\* ------------------------------------------------------------------------
\* Tic-Tac-Toe.  g is gameState.ttt; board is indexed [y][x] as in the source
\* (0 empty, 1 the first player, 2 the second player or the AI).
\* ------------------------------------------------------------------------
tttInit(aiMode) ==
  [board |-> [y \in 0 .. 2 |-> [x \in 0 .. 2 |-> 0]], cursorX |-> 1, cursorY |-> 1,
   turn |-> 1, aiMode |-> aiMode, waitingForAI |-> FALSE, aiMoveTime |-> 0]

\* The lines tttCheckWinner looks at, in its order, as cells <<y, x>>: row 0,
\* column 0, row 1, column 1, row 2, column 2 and the two diagonals.
TttLines ==
  <<<<(<<0, 0>>), (<<0, 1>>), (<<0, 2>>)>>, <<(<<0, 0>>), (<<1, 0>>), (<<2, 0>>)>>,
    <<(<<1, 0>>), (<<1, 1>>), (<<1, 2>>)>>, <<(<<0, 1>>), (<<1, 1>>), (<<2, 1>>)>>,
    <<(<<2, 0>>), (<<2, 1>>), (<<2, 2>>)>>, <<(<<0, 2>>), (<<1, 2>>), (<<2, 2>>)>>,
    <<(<<0, 0>>), (<<1, 1>>), (<<2, 2>>)>>, <<(<<0, 2>>), (<<1, 1>>), (<<2, 0>>)>>>>

\* tttCheckWinner(): the mark of the first complete line, 0 while a cell is
\* empty, 3 for a draw.
tttCheckWinner(board) ==
  LET At(c) == board[c[1]][c[2]]
      won == {k \in 1 .. Len(TttLines) :
                /\ At(TttLines[k][1]) # 0
                /\ At(TttLines[k][1]) = At(TttLines[k][2])
                /\ At(TttLines[k][2]) = At(TttLines[k][3])}
  IN  IF won # {} THEN At(TttLines[CHOOSE k \in won : \A j \in won : k <= j][1])
      ELSE IF \E y \in 0 .. 2, x \in 0 .. 2 : board[y][x] = 0 THEN 0
      ELSE 3

\* tttFindWinningMove(player, outX, outY): <<found, x, y>>, the first empty
\* cell, rows first, where a mark of player completes a line of player.
tttFindWinningMove(board, player, outX, outY) ==
  LET wins == {k \in 0 .. 8 :
                 /\ board[k \div 3][k % 3] = 0
                 /\ tttCheckWinner([board EXCEPT ![k \div 3][k % 3] = player]) = player}
      first == CHOOSE k \in wins : \A j \in wins : k <= j
  IN  IF wins = {} THEN <<FALSE, outX, outY>> ELSE <<TRUE, first % 3, first \div 3>>

\* priority[9][2] of tttAIMove, as cells <<px, py>>.
TttPriority ==
  <<(<<0, 0>>), (<<2, 0>>), (<<0, 2>>), (<<2, 2>>),
    (<<1, 0>>), (<<0, 1>>), (<<2, 1>>), (<<1, 2>>), (<<1, 1>>)>>

\* tttAIMove(): the board after the move of the AI.
tttAIMove(board) ==
  LET own == tttFindWinningMove(board, 2, 0, 0)
      other == tttFindWinningMove(board, 1, own[2], own[3])
      free == {i \in 1 .. Len(TttPriority) : board[TttPriority[i][2]][TttPriority[i][1]] = 0}
      pick == TttPriority[CHOOSE i \in free : \A j \in free : i <= j]
  IN  IF own[1] THEN [board EXCEPT ![own[3]][own[2]] = 2]
      ELSE IF other[1] THEN [board EXCEPT ![other[3]][other[2]] = 2]
      ELSE IF board[1][1] = 0 THEN [board EXCEPT ![1][1] = 2]
      ELSE IF free # {} THEN [board EXCEPT ![pick[2]][pick[1]] = 2]
      ELSE board

\* tttFinish(); ms is what millis() returns in finishGame.
tttFinish(s, ms) ==
  LET result == tttCheckWinner(s.gameState.board)
      ai == s.gameState.aiMode
  IN  IF result = 0 THEN s
      ELSE IF result = 1
      THEN finishGame([s EXCEPT !.score = @ + 5, !.scoreEvents = @ + 1], TRUE,
                      CStr(IF ai THEN <<"Y", "o", "u", " ", "w", "i", "n">>
                           ELSE <<"X", " ", "w", "i", "n", "s">>), ms)
      ELSE IF result = 2
      THEN finishGame(s, ~ai,
                      CStr(IF ai THEN <<"A", "I", " ", "w", "i", "n", "s">>
                           ELSE <<"O", " ", "w", "i", "n", "s">>), ms)
      ELSE finishGame(s, FALSE, CStr(<<"D", "r", "a", "w">>), ms)

\* if (takePress(id) && <the cursor can go on>) { cursor += step; beepButton(); }
TttCursor(s, id, axis, step) ==
  IF ~takePressResult(s.buttons, id) THEN s
  ELSE LET s1 == [s EXCEPT !.buttons = takePress(@, id)]
       IN  IF s.gameState[axis] + step \in 0 .. 2
           THEN beepButton([s1 EXCEPT !.gameState[axis] = @ + step])
           ELSE s1

\* tttUpdate(now): the PAUSE press that places a mark.
TttPlace(s, now) ==
  LET g == s.gameState
      s1 == [s EXCEPT !.buttons = takePress(@, B_PAUSE)]
      s2 == beepButton([s1 EXCEPT !.gameState.board[g.cursorY][g.cursorX] = g.turn,
                                  !.score = @ + 1, !.scoreEvents = @ + 1])
      s3 == tttFinish(s2, now)
  IN  IF ~takePressResult(s.buttons, B_PAUSE) THEN s
      ELSE IF g.board[g.cursorY][g.cursorX] # 0 THEN beepHit(s1)
      ELSE IF s3.systemState # STATE_PLAYING THEN s3
      ELSE IF g.aiMode
      THEN [s3 EXCEPT !.gameState.turn = 2, !.gameState.waitingForAI = TRUE,
                      !.gameState.aiMoveTime = now + 230]
      ELSE [s3 EXCEPT !.gameState.turn = IF g.turn = 1 THEN 2 ELSE 1]

tttUpdate(s, now) ==
  LET g == s.gameState
      a1 == tttFinish([s EXCEPT !.gameState.waitingForAI = FALSE,
                                !.gameState.board = tttAIMove(@)], now)
      s1 == TttCursor(s, B_UP, "cursorY", 0 - 1)
      s2 == TttCursor(s1, B_DOWN, "cursorY", 1)
      s3 == TttCursor(s2, B_LEFT, "cursorX", 0 - 1)
      s4 == TttCursor(s3, B_RIGHT, "cursorX", 1)
  IN  IF g.aiMode /\ g.waitingForAI /\ now >= g.aiMoveTime
      THEN IF a1.systemState = STATE_PLAYING THEN [a1 EXCEPT !.gameState.turn = 1] ELSE a1
      ELSE IF g.aiMode /\ g.turn = 2 THEN s
      ELSE TttPlace(s4, now)

\* ------------------------------------------------------------------------
\* The program state as one record, and back.
\* ------------------------------------------------------------------------
Cur ==
  [buttons |-> buttons, toneQueue |-> toneQueue, toneHead |-> toneHead,
   toneTail |-> toneTail, toneActive |-> toneActive, toneEndTime |-> toneEndTime,
   soundMuted |-> soundMuted, buzzer |-> buzzer, systemState |-> systemState,
   currentGame |-> currentGame, menuIndex |-> menuIndex, score |-> score,
   highScore |-> highScore, lastWin |-> lastWin, lastMsg |-> lastMsg,
   gamePaused |-> gamePaused, menuMuteComboLatched |-> menuMuteComboLatched,
   gameOverStartTime |-> gameOverStartTime, lastMatrixMs |-> lastMatrixMs,
   lastOledMs |-> lastOledMs, slotOwner |-> slotOwner, calls |-> calls,
   scoreEvents |-> scoreEvents]

Becomes(s) ==
  /\ buttons' = s.buttons
  /\ toneQueue' = s.toneQueue
  /\ toneHead' = s.toneHead
  /\ toneTail' = s.toneTail
  /\ toneActive' = s.toneActive
  /\ toneEndTime' = s.toneEndTime
  /\ soundMuted' = s.soundMuted
  /\ buzzer' = s.buzzer
  /\ systemState' = s.systemState
  /\ currentGame' = s.currentGame
  /\ menuIndex' = s.menuIndex
  /\ score' = s.score
  /\ highScore' = s.highScore
  /\ lastWin' = s.lastWin
  /\ lastMsg' = s.lastMsg
  /\ gamePaused' = s.gamePaused
  /\ menuMuteComboLatched' = s.menuMuteComboLatched
  /\ gameOverStartTime' = s.gameOverStartTime
  /\ lastMatrixMs' = s.lastMatrixMs
  /\ lastOledMs' = s.lastOledMs
  /\ slotOwner' = s.slotOwner
  /\ calls' = s.calls
  /\ scoreEvents' = s.scoreEvents

\* ------------------------------------------------------------------------
\* History of the tone queue (not program state):
\*   n        the number of enqueueTone calls so far
\*   pending  the events enqueueTone accepted (it advanced toneTail) that were
\*            neither started nor discarded by muting yet, oldest first
\*   quiet    neither updateSound nor setSoundMuted was called since setup
\*   age      the time since the tone on the buzzer was started
\*   mark     the number of enqueueTone calls made up to the last moment the
\*            mute flag was set
\* ------------------------------------------------------------------------
SoundHistInit ==
  [n |-> 0, pending |-> <<>>, quiet |-> TRUE, age |-> 0, mark |-> 0]

\* The state setup() leaves, with the raw levels it read.
SetupState(raw) ==
  /\ buttons = initButtons(raw, 0)
  /\ toneQueue = [i \in 0 .. (TONE_QUEUE_SIZE - 1) |-> [freq |-> 0, duration |-> 0]]
  /\ toneHead = 0
  /\ toneTail = 0
  /\ toneActive = FALSE
  /\ toneEndTime = 0
  /\ soundMuted = FALSE
  /\ buzzer = 0
  /\ systemState = STATE_MENU
  /\ currentGame = GAME_SNAKE_WALL
  /\ menuIndex = 0
  /\ score = 0
  /\ highScore = [g \in GameId |-> 0]
  /\ lastWin = FALSE
  /\ lastMsg = LastMsgInit
  /\ gamePaused = FALSE
  /\ menuMuteComboLatched = FALSE
  /\ gameOverStartTime = 0 - GAME_OVER_DELAY_MS
  /\ lastMatrixMs = 0
  /\ lastOledMs = 0
  /\ slotOwner = NoGame
  /\ calls = <<>>
  /\ rawHist = RawHistInit(raw)
  /\ rawChanges = 0
  /\ scoreEvents = 0
  /\ sound = SoundHistInit
  /\ frameBuffer = clearFrame(0)
  /\ gameState = ZeroedMinesweeper
  /\ pausePressStart = 0 - LONG_PRESS_MS
  /\ pauseWasPressed = FALSE
  /\ place = NotPlacing
  /\ op = [name |-> "setup"]

AllReleased == [i \in ButtonId |-> FALSE]

\* ------------------------------------------------------------------------
\* Spec: the console running loop() with a user at the buttons.
\* ------------------------------------------------------------------------
Init == SetupState(AllReleased)

\* One loop() iteration, TickMs after the one before.  Before it the user changes
\* the raw level of at most MaxPerTick buttons.  A change of a button in user
\* counts against the budget.  The buttons in nav are worked only to choose a
\* game: in the menu, before any counted change, and they are released again
\* before a button in user is touched.  The game logic adds to the score at most
\* maxEvents times in a round.
LoopStep(user, nav, budget, maxEvents, dt) ==
  \E ch \in {x \in SUBSET (user \cup nav) : Cardinality(x) <= MaxPerTick} :
    \E raw \in {[b \in ButtonId |-> IF b \in ch THEN ~rawHist[b].level ELSE rawHist[b].level]} :
      /\ ch \cap nav # {} => systemState = STATE_MENU /\ rawChanges = 0 /\ ch \subseteq nav
      /\ ch \cap user # {} => \A b \in nav : ~rawHist[b].level
      /\ rawChanges + Cardinality(ch \cap user) <= budget
      /\ \E s1 \in {LoopInput(Cur, dt, raw)} :
           \E c \in GameChoices(s1, maxEvents) :
             \E lag \in (IF c.fin = 0 THEN {0} ELSE {0, MillisLag}) :
               \E s2 \in {LoopRest(s1, dt, c, dt + lag)} : Becomes(s2)
      /\ rawHist' = [b \in ButtonId |-> [rawHist[b] EXCEPT !.level = raw[b]]]
      /\ rawChanges' = rawChanges + Cardinality(ch \cap user)
      /\ UNCHANGED <<sound, frameBuffer, gameState, pausePressStart, pauseWasPressed, place>>
      /\ op' = [name |-> "loop", dt |-> dt]

\* An iteration TickMs after the one before.
LoopBy(user, nav, budget, maxEvents) == LoopStep(user, nav, budget, maxEvents, TickMs)

\* Spec: the user works all six buttons.
Loop == LoopBy(ButtonId, {}, MaxRawChanges, MaxScoreEvents)
Next == Loop
Spec == Init /\ [][Next]_vars

\* SpecRounds: the user chooses any game with UP and DOWN and then works the
\* PAUSE and SELECT buttons (rounds are started, played to their end or
\* cancelled, started again).
LoopRounds == LoopBy({B_PAUSE, B_SELECT}, {B_UP, B_DOWN}, MaxRoundChanges, MaxRoundScoreEvents)
NextRounds == LoopRounds
SpecRounds == Init /\ [][NextRounds]_vars

\* SpecPause: the user chooses any game with UP and DOWN and then works the
\* PAUSE button only (the game is started, paused, resumed).
LoopPause == LoopBy({B_PAUSE}, {B_UP, B_DOWN}, MaxPauseChanges, MaxPauseScoreEvents)
NextPause == LoopPause
SpecPause == Init /\ [][NextPause]_vars

\* SpecCancel: the user chooses one of PauseGames with UP and DOWN and then
\* works the PAUSE and SELECT buttons (the game is started, paused, resumed
\* or cancelled while paused).
PauseGames == {GAME_PACMAN_EASY, GAME_PONG, GAME_DINO}
LoopCancel ==
  /\ LoopBy({B_PAUSE, B_SELECT}, {B_UP, B_DOWN}, MaxCancelChanges, MaxCancelScoreEvents)
  /\ systemState' = STATE_PLAYING => currentGame' \in PauseGames
NextCancel == LoopCancel
SpecCancel == Init /\ [][NextCancel]_vars

\* SpecHold: the user presses LEFT and RIGHT and keeps them down, and works the
\* PAUSE and SELECT buttons (sound is muted from the menu, the first game is
\* started, played and cancelled during the hold).
LoopHold ==
  /\ LoopBy({B_LEFT, B_RIGHT, B_PAUSE, B_SELECT}, {}, MaxHoldChanges, MaxHoldScoreEvents)
  /\ \A b \in {B_LEFT, B_RIGHT} : rawHist[b].level => rawHist'[b].level
NextHold == LoopHold
SpecHold == Init /\ [][NextHold]_vars

\* SpecRender: nobody touches the buttons (the console shows the menu); the
\* iterations are RenderTickMs, one matrix interval, one text-panel interval
\* or LongTickMs apart.
RenderTicks == {RenderTickMs, MATRIX_FRAME_MS, OLED_FRAME_MS, LongTickMs}
LoopRender == \E dt \in RenderTicks : LoopStep({}, {}, 0, 0, dt)
NextRender == LoopRender
SpecRender == Init /\ [][NextRender]_vars

\* ------------------------------------------------------------------------
\* SpecButtons: the button layer alone, sampled every SampleMs or 3*SampleMs,
\* with the raw levels of the first DrivenButtons buttons changing freely.
\* ------------------------------------------------------------------------
Driven == 0 .. (DrivenButtons - 1)
DrivenRaw == {raw \in [ButtonId -> BOOLEAN] : \A i \in ButtonId \ Driven : ~raw[i]}

SessionUnchanged ==
  UNCHANGED <<toneQueue, toneHead, toneTail, toneActive, toneEndTime, soundMuted,
              buzzer, systemState, currentGame, menuIndex, score, highScore, lastWin,
              lastMsg, gamePaused, menuMuteComboLatched, gameOverStartTime,
              lastMatrixMs, lastOledMs, slotOwner, calls, rawChanges, scoreEvents,
              sound, frameBuffer, gameState, pausePressStart, pauseWasPressed, place>>

InitButtons == \E raw \in DrivenRaw : SetupState(raw)

\* updateButtons(now), dt after the sample before.
Sample ==
  \E dt \in {SampleMs, 3 * SampleMs}, raw \in DrivenRaw :
    /\ buttons' = RebaseButtons(updateButtons(buttons, dt, raw), dt)
    /\ rawHist' = OwedAfterUpdate(RawHistNext(rawHist, raw, dt), buttons,
                                  updateButtons(buttons, dt, raw))
    /\ op' = [name |-> "updateButtons"]
    /\ SessionUnchanged

TakePress ==
  \E id \in Driven :
    /\ buttons' = takePress(buttons, id)
    /\ op' = [name |-> "takePress", id |-> id, result |-> takePressResult(buttons, id)]
    /\ rawHist' = OwedAfterTake(rawHist, buttons, id)
    /\ SessionUnchanged

\* isDown(id): reads the debounced level, writes nothing.
IsDown ==
  \E id \in Driven :
    /\ op' = [name |-> "isDown", id |-> id, result |-> isDown(buttons, id)]
    /\ UNCHANGED <<buttons, rawHist>>
    /\ SessionUnchanged

ClearButtonEdges ==
  /\ buttons' = clearButtonEdges(buttons)
  /\ op' = [name |-> "clearButtonEdges"]
  /\ rawHist' = OwedAfterClear(rawHist)
  /\ SessionUnchanged

NextButtons == Sample \/ TakePress \/ IsDown \/ ClearButtonEdges

SpecButtons == InitButtons /\ [][NextButtons]_vars

\* ------------------------------------------------------------------------
\* SpecRouter: the game router called directly.  startGame starts a round of
\* one of RouterGames from the menu; initGame, updateGame and drawGame are
\* called with the id of the round being played or with an id past the enum.
\* calls is the log of the whole run here, of at most MaxRouterCalls entries.
\* ------------------------------------------------------------------------
RouterGames == {GAME_SNAKE_WALL, GAME_MINESWEEPER}
RouterIds ==
  (IF systemState = STATE_PLAYING THEN {currentGame} ELSE {})
    \cup (GAME_COUNT .. (GAME_COUNT + UnknownIds - 1))
DrawCells == {<<0, 0>>, <<MATRIX_W - 1, 1>>}

RouterRest == UNCHANGED <<rawHist, rawChanges, sound, gameState, pausePressStart, pauseWasPressed, place>>

RouterStart ==
  \E id \in RouterGames :
    /\ systemState = STATE_MENU
    /\ \E s2 \in {startGame(Cur, id)} : Len(s2.calls) <= MaxRouterCalls /\ Becomes(s2)
    /\ op' = [name |-> "startGame", id |-> id]
    /\ UNCHANGED frameBuffer
    /\ RouterRest

RouterInit ==
  \E id \in RouterIds :
    /\ \E s2 \in {initGame(Cur, id)} : Len(s2.calls) <= MaxRouterCalls /\ Becomes(s2)
    /\ op' = [name |-> "initGame", id |-> id]
    /\ UNCHANGED frameBuffer
    /\ RouterRest

RouterUpdate ==
  \E id \in RouterIds :
    \E c \in GameChoices(Cur, MaxRouterScoreEvents) :
      /\ \E s2 \in {updateGame(Cur, id, c, TickMs)} :
           Len(s2.calls) <= MaxRouterCalls /\ Becomes(s2)
      /\ op' = [name |-> "updateGame", id |-> id]
      /\ UNCHANGED frameBuffer
      /\ RouterRest

RouterDraw ==
  \E id \in RouterIds, cell \in DrawCells :
    /\ \E s2 \in {IF id \in GameId THEN Log(Cur, "drawGame", id) ELSE Cur} :
         Len(s2.calls) <= MaxRouterCalls /\ Becomes(s2)
    /\ frameBuffer' = drawGame(frameBuffer, id, cell)
    /\ op' = [name |-> "drawGame", id |-> id]
    /\ RouterRest

NextRouter == RouterStart \/ RouterInit \/ RouterUpdate \/ RouterDraw

SpecRouter == Init /\ [][NextRouter]_vars

\* ------------------------------------------------------------------------
\* SpecMessage: rounds of one game started from the menu, finished by
\* finishGame called with any of Messages (no message, the empty one, a
\* message of the game, and messages around the size of lastMsg), and left by
\* returnToMenu.  calls holds the calls of the last step.
\* ------------------------------------------------------------------------
Letters ==
  <<"a", "b", "c", "d", "e", "f", "g", "h", "i", "j", "k", "l", "m",
    "n", "o", "p", "q", "r", "s", "t", "u", "v", "w", "x", "y", "z">>
LongMessage(n) == [i \in 1 .. n |-> Letters[((i - 1) % Len(Letters)) + 1]]
Messages ==
  {NULLPTR, CStr(<<>>), CStr(Finishes(GAME_MINESWEEPER)[1].msg)}
    \cup {CStr(LongMessage(n)) : n \in (LASTMSG_SIZE - 2) .. (LASTMSG_SIZE - 1 + MsgOver)}

MessageRest ==
  UNCHANGED <<rawHist, rawChanges, sound, frameBuffer, gameState, pausePressStart, pauseWasPressed, place>>
Fresh == [Cur EXCEPT !.calls = <<>>]

MessageStart ==
  /\ systemState = STATE_MENU
  /\ Becomes(startGame(Fresh, GAME_MINESWEEPER))
  /\ op' = [name |-> "startGame", id |-> GAME_MINESWEEPER]
  /\ MessageRest

MessageFinish ==
  \E win \in BOOLEAN, message \in Messages :
    /\ Becomes(finishGame(Fresh, win, message, TickMs))
    /\ op' = [name |-> "finishGame", win |-> win, message |-> message]
    /\ MessageRest

MessageReturn ==
  /\ systemState = STATE_GAME_OVER
  /\ Becomes(returnToMenu(Fresh))
  /\ op' = [name |-> "returnToMenu"]
  /\ MessageRest

NextMessage == MessageStart \/ MessageFinish \/ MessageReturn

SpecMessage == Init /\ [][NextMessage]_vars

\* ------------------------------------------------------------------------
\* SpecMines, SpecMinesRounds: the console with Minesweeper as the game.  The
\* user chooses it with UP and then works the buttons in user; loop() runs every
\* MinesTickMs.  minesweeperPlaceMines runs one iteration of its first loop
\* per step, with the two calls of random(8) returning the column and the row
\* of one of RandomCells (the cursor's first cell and ten more); the iteration
\* of loop() that called it goes on when it returns.
\* ------------------------------------------------------------------------
RandomCells == ((4 .. 7) \X (4 .. 6)) \ {<<7, 6>>}

MinesCur ==
  Cur @@ [gameState |-> gameState, pausePressStart |-> pausePressStart,
          pauseWasPressed |-> pauseWasPressed, place |-> place]

MinesBecomes(s) ==
  /\ Becomes(s)
  /\ gameState' = s.gameState
  /\ pausePressStart' = s.pausePressStart
  /\ pauseWasPressed' = s.pauseWasPressed
  /\ place' = s.place

MinesLoopBy(user, budget) ==
  LET MinesNav == {B_UP} IN
  /\ place.pc = "idle"
  /\ \E ch \in {x \in SUBSET (user \cup MinesNav) : Cardinality(x) <= MaxPerTick} :
       \E raw \in {[b \in ButtonId |-> IF b \in ch THEN ~rawHist[b].level ELSE rawHist[b].level]} :
         /\ ch \cap MinesNav # {} => systemState = STATE_MENU /\ rawChanges = 0 /\ ch \subseteq MinesNav
         /\ ch \cap user # {} => \A b \in MinesNav : ~rawHist[b].level
         /\ rawChanges + Cardinality(ch \cap user) <= budget
         /\ \E s1 \in {MinesState(LoopInput(MinesCur, MinesTickMs, raw), MinesTickMs)} :
              /\ s1.systemState = STATE_PLAYING => s1.currentGame = GAME_MINESWEEPER
              /\ IF s1.place.pc = "placing"
                 THEN MinesBecomes(s1)
                 ELSE MinesBecomes(MinesRest(s1, MinesTickMs))
         /\ rawHist' = [b \in ButtonId |-> [rawHist[b] EXCEPT !.level = raw[b]]]
         /\ rawChanges' = rawChanges + Cardinality(ch \cap user)
  /\ op' = [name |-> "loop", dt |-> MinesTickMs]
  /\ UNCHANGED <<sound, frameBuffer>>

\* One iteration of while (minesPlaced < 10) with the outcomes x, y of
\* random(8); op tells what the iteration found at the cell.
PlaceStep ==
  /\ place.pc = "placing"
  /\ place.minesPlaced < MINE_COUNT
  /\ \E x \in Coord, y \in Coord :
       /\ <<x, y>> \in RandomCells
       /\ IF SkipCell(gameState.board, x, y, place.safeX, place.safeY)
          THEN /\ UNCHANGED <<gameState, place>>
               /\ op' = [name |-> "placeStep",
                         found |-> IF gameState.board[y][x] = MINE THEN "mine"
                                   ELSE "safe cell"]
          ELSE /\ gameState' = [gameState EXCEPT !.board[y][x] = MINE]
               /\ place' = [place EXCEPT !.minesPlaced = @ + 1]
               /\ op' = [name |-> "placeStep", found |-> "free cell"]
  /\ UNCHANGED <<buttons, toneQueue, toneHead, toneTail, toneActive, toneEndTime,
                 soundMuted, buzzer, systemState, currentGame, menuIndex, score,
                 highScore, lastWin, lastMsg, gamePaused, menuMuteComboLatched,
                 gameOverStartTime, lastMatrixMs, lastOledMs, slotOwner, calls,
                 rawHist, rawChanges, scoreEvents, sound, frameBuffer,
                 pausePressStart, pauseWasPressed>>

\* The loop is left: the numbers are computed, minesweeperPlaceMines returns
\* and the iteration of loop() that called it is completed.
PlaceReturn ==
  /\ place.pc = "placing"
  /\ place.minesPlaced >= MINE_COUNT
  /\ \E s1 \in {[MinesCur EXCEPT !.gameState.board = NumbersFrom(@, 0)]} :
       MinesBecomes(MinesRest(minesweeperUpdate_Resume(s1, MinesTickMs), MinesTickMs))
  /\ op' = [name |-> "placed", x |-> place.safeX, y |-> place.safeY]
  /\ UNCHANGED <<rawHist, rawChanges, sound, frameBuffer>>

\* SpecMines: a round played with PAUSE and LEFT.
NextMines == MinesLoopBy({B_PAUSE, B_LEFT}, MaxMinesChanges) \/ PlaceStep \/ PlaceReturn
SpecMines == Init /\ [][NextMines]_vars

\* SpecMinesRounds: rounds started with PAUSE, cancelled with SELECT and
\* started again.
NextMinesRounds ==
  MinesLoopBy({B_PAUSE, B_SELECT}, MaxMinesRoundChanges) \/ PlaceStep \/ PlaceReturn
SpecMinesRounds == Init /\ [][NextMinesRounds]_vars

\* The processor goes on executing: an iteration of the placement loop, or
\* the return from it, is taken when it is the next thing to do.
SpecMinesFair == SpecMines /\ WF_vars(PlaceStep) /\ WF_vars(PlaceReturn)

\* ------------------------------------------------------------------------
\* SpecSnake: rounds of Snake.  startGame starts a round of either mode from
\* the menu; snakeUpdate is then called every SnakeTickMs or 2 * SnakeTickMs,
\* finding the press flags of the buttons in pressed set by updateButtons
\* since the call before.  random(0, 8) names the cells of RandomFood.
\* rawChanges counts the presses and op.n the calls of snakeUpdate; calls
\* holds the calls of the last step.
\* ------------------------------------------------------------------------
RandomFood == {<<0, 0>>, <<6, 4>>}
SnakeGames == {GAME_SNAKE_WALL, GAME_SNAKE_WRAP}
SnakeButtons == {B_UP, B_DOWN, B_LEFT, B_RIGHT, B_PAUSE}

SnakeStart ==
  \E id \in SnakeGames :
    \E g \in snakePlaceFood(snakeInit(id = GAME_SNAKE_WRAP, 0), RandomFood) :
      /\ systemState = STATE_MENU
      /\ MinesBecomes([startGame([MinesCur EXCEPT !.calls = <<>>], id) EXCEPT !.gameState = g])
      /\ op' = [name |-> "startGame", n |-> 0]
      /\ UNCHANGED <<rawHist, rawChanges, sound, frameBuffer>>

SnakeUpdate ==
  \E pressed \in SUBSET SnakeButtons, now \in {SnakeTickMs, 2 * SnakeTickMs} :
    \E s1 \in {[MinesCur EXCEPT
                  !.calls = <<>>,
                  !.buttons = [i \in ButtonId |->
                                 IF i \in pressed THEN [@[i] EXCEPT !.press = TRUE] ELSE @[i]]]} :
      /\ systemState = STATE_PLAYING
      /\ currentGame \in SnakeGames
      /\ op.n < MaxSnakeUpdates
      /\ rawChanges + Cardinality(pressed) <= MaxSnakePresses
      /\ \E s2 \in snakeUpdate(Log(s1, "updateGame", currentGame), now, RandomFood) :
           MinesBecomes([Rebase(s2, now) EXCEPT
                           !.gameState.lastMove = RebaseStamp(@, now, SNAKE_INIT_MS)])
      /\ rawChanges' = rawChanges + Cardinality(pressed)
      /\ op' = [name |-> "snakeUpdate", n |-> op.n + 1]
      /\ UNCHANGED <<rawHist, sound, frameBuffer>>

NextSnake == SnakeStart \/ SnakeUpdate
SpecSnake == Init /\ [][NextSnake]_vars

\* ------------------------------------------------------------------------
\* SpecTtt: rounds of Tic-Tac-Toe against the AI, with the sound muted in the
\* menu first (the tone queue stays empty).  tttUpdate is called every
\* TttTickMs, finding the press flags of the buttons in pressed set by
\* updateButtons since the call before (at most MaxPerTick of them).  calls
\* holds the calls of the last step.
\* ------------------------------------------------------------------------
TttButtons == {B_UP, B_DOWN, B_LEFT, B_RIGHT, B_PAUSE}

TttMute ==
  /\ systemState = STATE_MENU
  /\ ~soundMuted
  /\ MinesBecomes(setSoundMuted([MinesCur EXCEPT !.calls = <<>>], TRUE))
  /\ op' = [name |-> "setSoundMuted"]
  /\ UNCHANGED <<rawHist, rawChanges, sound, frameBuffer>>

TttStart ==
  /\ systemState = STATE_MENU
  /\ soundMuted
  /\ MinesBecomes([startGame([MinesCur EXCEPT !.calls = <<>>], GAME_TTT_AI)
                     EXCEPT !.gameState = tttInit(TRUE)])
  /\ op' = [name |-> "startGame"]
  /\ UNCHANGED <<rawHist, rawChanges, sound, frameBuffer>>

TttUpdate ==
  \E pressed \in {p \in SUBSET TttButtons : Cardinality(p) <= MaxPerTick} :
    \E s1 \in {[MinesCur EXCEPT
                  !.calls = <<>>,
                  !.buttons = [i \in ButtonId |->
                                 IF i \in pressed THEN [@[i] EXCEPT !.press = TRUE] ELSE @[i]]]} :
      /\ systemState = STATE_PLAYING
      /\ currentGame = GAME_TTT_AI
      /\ \E s2 \in {tttUpdate(Log(s1, "updateGame", currentGame), TttTickMs)} :
           MinesBecomes([Rebase(s2, TttTickMs) EXCEPT
                           !.gameState.aiMoveTime = RebaseStamp(@, TttTickMs, 0)])
      /\ op' = [name |-> "tttUpdate"]
      /\ UNCHANGED <<rawHist, rawChanges, sound, frameBuffer>>

NextTtt == TttMute \/ TttStart \/ TttUpdate
SpecTtt == Init /\ [][NextTtt]_vars

\* ------------------------------------------------------------------------
\* SpecFrame: the frame buffer alone.  setPixel is called with coordinates up
\* to PixelMargin outside the grid and colours 0 .. MaxColor, as long as at
\* most MaxLit cells are lit afterwards; clearFrame() blanks the frame.
\* ------------------------------------------------------------------------
PixelCoords == (0 - PixelMargin) .. (MATRIX_W - 1 + PixelMargin)
PixelColors == 0 .. MaxColor
Lit(fb) == {i \in DOMAIN fb : fb[i] # 0}

FrameOnly ==
  UNCHANGED <<buttons, toneQueue, toneHead, toneTail, toneActive, toneEndTime,
              soundMuted, buzzer, systemState, currentGame, menuIndex, score,
              highScore, lastWin, lastMsg, gamePaused, menuMuteComboLatched,
              gameOverStartTime, lastMatrixMs, lastOledMs, slotOwner, calls,
              rawHist, rawChanges, scoreEvents, sound, gameState, pausePressStart, pauseWasPressed, place>>

SetPixel ==
  \E x \in PixelCoords, y \in PixelCoords, color \in PixelColors :
    /\ Cardinality(Lit(setPixel(frameBuffer, x, y, color))) <= MaxLit
    /\ frameBuffer' = setPixel(frameBuffer, x, y, color)
    /\ op' = [name |-> "setPixel", x |-> x, y |-> y, color |-> color]
    /\ FrameOnly

ClearFrame ==
  /\ frameBuffer' = clearFrame(0)
  /\ op' = [name |-> "clearFrame"]
  /\ FrameOnly

NextFrame == SetPixel \/ ClearFrame

SpecFrame == Init /\ [][NextFrame]_vars

\* ------------------------------------------------------------------------
\* SpecSound: the tone queue alone.  enqueueTone, updateSound and
\* setSoundMuted are called in any order; updateSound is called PumpMs or
\* 3*PumpMs after the call before; the k-th call of enqueueTone passes
\* SoundEvent(k), so that every event can be told from every other.  The
\* ring keeps its positions; the slots outside the queue are blanked
\* (BlankRing).
\* ------------------------------------------------------------------------
SoundEvent(k) ==
  [freq |-> SoundFreqBase + k,
   duration |-> IF k % 2 = 1 THEN 3 * PumpMs ELSE 6 * PumpMs]

Occupancy(head, tail) == (tail + TONE_QUEUE_SIZE - head) % TONE_QUEUE_SIZE

\* The queued events, oldest first.
Queued(queue, head, tail) ==
  [j \in 1 .. Occupancy(head, tail) |-> queue[(head + j - 1) % TONE_QUEUE_SIZE]]

BlankRing(s) ==
  [s EXCEPT !.toneQueue =
     [i \in 0 .. (TONE_QUEUE_SIZE - 1) |->
        IF Occupancy(s.toneHead, i) < Occupancy(s.toneHead, s.toneTail)
        THEN s.toneQueue[i]
        ELSE [freq |-> 0, duration |-> 0]]]

\* A call of tone(BUZZER, f) shows on the pin as a new frequency.
\* The event enqueued with frequency f.
EventOf(f) == SoundEvent(f - SoundFreqBase)

ToneStarted(before, after) == after.buzzer # 0 /\ after.buzzer # before.buzzer

EnqueueTone ==
  /\ sound.n < MaxEnqueues
  /\ LET k == sound.n + 1
         e == SoundEvent(k)
         s2 == enqueueTone(Cur, e.freq, e.duration)
     IN  /\ Becomes(s2)
         /\ sound' = [sound EXCEPT
                        !.n = k,
                        !.pending = IF s2.toneTail # toneTail THEN Append(@, e) ELSE @,
                        !.mark = IF soundMuted THEN k ELSE @]
         /\ op' = [name |-> "enqueueTone", freq |-> e.freq, duration |-> e.duration]
  /\ UNCHANGED <<rawHist, rawChanges, frameBuffer, gameState, pausePressStart, pauseWasPressed, place>>

UpdateSound ==
  \E dt \in {PumpMs, 3 * PumpMs} :
    LET s2 == updateSound(Cur, dt)
        s3 == [BlankRing(s2) EXCEPT !.toneEndTime = RebaseStamp(@, dt, 0)]
    IN  /\ Becomes(s3)
        /\ sound' = [sound EXCEPT
                       !.pending = IF soundMuted THEN <<>>
                                   ELSE IF ToneStarted(Cur, s2) /\ @ # <<>> THEN Tail(@)
                                   ELSE @,
                       !.quiet = FALSE,
                       !.age = IF ToneStarted(Cur, s2) \/ s2.buzzer = 0 THEN 0
                               ELSE Min(@ + dt, 6 * PumpMs)]
        /\ op' = [name |-> "updateSound", dt |-> dt,
                  stopped |-> buzzer # 0 /\ s2.buzzer # buzzer]
        /\ UNCHANGED <<rawHist, rawChanges, frameBuffer, gameState, pausePressStart, pauseWasPressed, place>>

SetSoundMuted ==
  \E muted \in BOOLEAN :
    LET s2 == BlankRing(setSoundMuted(Cur, muted))
    IN  /\ Becomes(s2)
        /\ sound' = [sound EXCEPT
                       !.pending = IF muted THEN <<>> ELSE @,
                       !.quiet = FALSE,
                       !.age = IF s2.buzzer = 0 THEN 0 ELSE @,
                       !.mark = IF muted \/ soundMuted THEN sound.n ELSE @]
        /\ op' = [name |-> "setSoundMuted", muted |-> muted, cut |-> buzzer # 0,
                  discarded |-> Occupancy(toneHead, toneTail)]
        /\ UNCHANGED <<rawHist, rawChanges, frameBuffer, gameState, pausePressStart, pauseWasPressed, place>>

NextSound == EnqueueTone \/ UpdateSound \/ SetSoundMuted

SpecSound == Init /\ [][NextSound]_vars

\* SpecSoundFair: the tone queue with the sound on.  enqueueTone is called at
\* most MaxFairEnqueues times, at any moments; loop() goes on calling
\* updateSound, each call PumpMs or 3*PumpMs after the one before.
EnqueueSome == EnqueueTone /\ sound.n < MaxFairEnqueues
NextSoundFair == EnqueueSome \/ UpdateSound
SpecSoundFair == Init /\ [][NextSoundFair]_vars /\ WF_vars(UpdateSound)

\* ------------------------------------------------------------------------
\* Claims about the session (Spec, SpecRounds, SpecPause)
\* ------------------------------------------------------------------------
\* The calls named fn in a log of calls.
CallsOf(cs, fn) == {k \in DOMAIN cs : cs[k].fn = fn}

\* The loop() iteration of this step made a call named fn.
Ran(fn) == CallsOf(calls', fn) # {}

\* The press flag of b is set when the iteration of this step has run
\* updateButtons: it was left set, or this updateButtons commits a press.
PressFound(b) == buttons[b].press \/ (~buttons[b].stable /\ buttons'[b].stable)

\* The iteration of this step, begun in the menu, finds LEFT and RIGHT down
\* with the latch open: it toggles the mute and clears every edge flag.
MuteFires == ~menuMuteComboLatched /\ buttons'[B_LEFT].stable /\ buttons'[B_RIGHT].stable

\* The iteration of this step starts at least 2000 ms after gameOverStartTime.
TimeoutDue == TickMs - gameOverStartTime >= GAME_OVER_DELAY_MS

\* C1: the session starts in the menu, and the state changes only from menu to
\* playing (a PAUSE press found in the menu; startGame), from playing to game
\* over (finishGame), from game over to menu (a PAUSE or SELECT press, or the
\* timeout) and from playing to menu (a SELECT press).
C1_Transitions ==
  /\ systemState = STATE_MENU
  /\ [][systemState' # systemState =>
          \/ /\ systemState = STATE_MENU /\ systemState' = STATE_PLAYING
             /\ PressFound(B_PAUSE) /\ Ran("startGame")
          \/ /\ systemState = STATE_PLAYING /\ systemState' = STATE_GAME_OVER
             /\ Ran("updateGame") /\ Ran("finishGame")
          \/ /\ systemState = STATE_GAME_OVER /\ systemState' = STATE_MENU
             /\ (PressFound(B_PAUSE) \/ PressFound(B_SELECT) \/ TimeoutDue)
             /\ Ran("returnToMenu")
          \/ /\ systemState = STATE_PLAYING /\ systemState' = STATE_MENU
             /\ PressFound(B_SELECT) /\ Ran("returnToMenu")]_vars

\* C1 witness: back in the menu after a round that was played to its end.
C1_Witness ==
  /\ systemState = STATE_MENU
  /\ \E k \in CallsOf(calls, "returnToMenu") : calls[k].state = STATE_GAME_OVER
  /\ \E g \in GameId : highScore[g] > 0

\* C2: a PAUSE press found in the menu starts the selected game, and then only:
\* startGame is called once, with the menu index; it calls initGame once, with
\* that id, after it has set the state to playing, the score to 0 and cleared
\* every edge flag; the iteration ends playing that game with score 0 and no
\* edge flag set, and has not called the game's update function.  The update
\* function is called only while playing, with the current game, and the first
\* call after a start finds score 0.
C2_StartGame ==
  [][/\ (systemState = STATE_MENU /\ PressFound(B_PAUSE) /\ ~MuteFires) <=> Ran("startGame")
     /\ \A k \in CallsOf(calls', "startGame") :
          /\ CallsOf(calls', "startGame") = {k}
          /\ calls'[k].id = menuIndex'
          /\ currentGame' = menuIndex'
          /\ Cardinality(CallsOf(calls', "initGame")) = 1
          /\ \A j \in CallsOf(calls', "initGame") :
               /\ j > k
               /\ calls'[j].id = menuIndex'
               /\ calls'[j].state = STATE_PLAYING
               /\ calls'[j].score = 0
               /\ ~calls'[j].edges
          /\ systemState' = STATE_PLAYING
          /\ score' = 0
          /\ \A b \in ButtonId : ~buttons'[b].press /\ ~buttons'[b].release
          /\ ~Ran("updateGame")
          /\ ~Ran("advance")
     /\ \A k \in CallsOf(calls', "updateGame") :
          /\ systemState = STATE_PLAYING
          /\ calls'[k].state = STATE_PLAYING
          /\ calls'[k].id = currentGame
          /\ CallsOf(calls, "startGame") # {} => calls'[k].score = 0]_vars

\* C2 witness: Tetris started again after a round that scored.
C2_Witness ==
  /\ systemState = STATE_PLAYING
  /\ CallsOf(calls, "startGame") # {}
  /\ currentGame = GAME_TETRIS
  /\ highScore[GAME_TETRIS] > 0
  /\ score = 0

\* C3: a finishGame(win, message) call made while playing ends the iteration
\* in game over with lastWin = win, lastMsg holding the message (its first 23
\* characters; "Win" or "Game over" for a null message), gameOverStartTime the
\* time of the call, and the high score of the current game the larger of its
\* old value and the score at the call, whatever win is.
C3_FinishGame ==
  [][\A k \in CallsOf(calls', "finishGame") :
       LET e == calls'[k]
           text == IF e.message.null
                   THEN (IF e.win THEN MSG_WIN ELSE MSG_GAME_OVER)
                   ELSE e.message.str
           old == highScore[currentGame]
           new == highScore'[currentGame]
       IN  e.state = STATE_PLAYING =>
             /\ systemState = STATE_PLAYING
             /\ e.id = currentGame
             /\ systemState' = STATE_GAME_OVER
             /\ lastWin' = e.win
             /\ StrOf(lastMsg') = SubSeq(text, 1, Min(Len(text), LASTMSG_SIZE - 1))
             /\ gameOverStartTime' \in 0 .. MillisLag
             /\ new >= old /\ new >= e.score /\ new \in {old, e.score}]_vars

\* C3 witness: a round lost with score 50 when the stored high score was 30; the
\* high score is 50 and the state is game over.
C3_Witness ==
  /\ systemState = STATE_GAME_OVER
  /\ highScore[currentGame] = 50
  /\ \E k \in CallsOf(calls, "finishGame") :
       /\ calls[k].state = STATE_PLAYING
       /\ calls[k].score = 50
       /\ calls[k].high = 30
       /\ ~calls[k].win

\* C4: no high score ever decreases; the high score of a game changes only in
\* an iteration that takes that game from playing to game over, only when the
\* score at the finishGame call exceeds it, and then to that score.
C4_HighScoreMonotone ==
  [][\A g \in GameId :
       /\ highScore'[g] >= highScore[g]
       /\ highScore'[g] # highScore[g] =>
            /\ systemState = STATE_PLAYING
            /\ systemState' = STATE_GAME_OVER
            /\ g = currentGame
            /\ \E k \in CallsOf(calls', "finishGame") :
                 /\ calls'[k].state = STATE_PLAYING
                 /\ calls'[k].score > highScore[g]
                 /\ highScore'[g] = calls'[k].score]_vars

\* C4 witness: a round ended with a score below the stored high score, which stays.
C4_Witness ==
  /\ systemState = STATE_GAME_OVER
  /\ \E k \in CallsOf(calls, "finishGame") :
       /\ calls[k].state = STATE_PLAYING
       /\ calls[k].score < calls[k].high
       /\ highScore[currentGame] = calls[k].high

\* C5: an iteration begun in game over ends in the menu if it finds a PAUSE or
\* SELECT press or starts at least 2000 ms after gameOverStartTime, and ends in
\* game over otherwise.
C5_GameOverReturn ==
  [][systemState = STATE_GAME_OVER =>
       systemState' = (IF PressFound(B_PAUSE) \/ PressFound(B_SELECT) \/ TimeoutDue
                       THEN STATE_MENU ELSE STATE_GAME_OVER)]_vars

\* C5 witness: back in the menu from game over with PAUSE and SELECT never
\* pressed since (the timeout).
C5_Witness ==
  /\ systemState = STATE_MENU
  /\ \E k \in CallsOf(calls, "returnToMenu") : calls[k].state = STATE_GAME_OVER
  /\ ~buttons[B_PAUSE].stable
  /\ ~buttons[B_SELECT].stable

\* C6: an iteration begun playing or in game over that finds a SELECT press ends
\* in the menu and calls neither the game's update function nor startGame; an
\* iteration begun in the menu that finds a SELECT press and no UP, DOWN or
\* PAUSE press leaves the state and the menu index as they are, starts no game
\* and does not call returnToMenu.
C6_GlobalSelect ==
  [][/\ (systemState # STATE_MENU /\ PressFound(B_SELECT)) =>
          /\ systemState' = STATE_MENU
          /\ Ran("returnToMenu")
          /\ ~Ran("updateGame")
          /\ ~Ran("advance")
          /\ ~Ran("startGame")
     /\ (/\ systemState = STATE_MENU
         /\ PressFound(B_SELECT)
         /\ ~PressFound(B_UP) /\ ~PressFound(B_DOWN) /\ ~PressFound(B_PAUSE)) =>
          /\ systemState' = STATE_MENU
          /\ menuIndex' = menuIndex
          /\ currentGame' = currentGame
          /\ ~Ran("startGame")
          /\ ~Ran("returnToMenu")]_vars

\* C6 witness: a round cancelled with SELECT while playing.
C6_Witness ==
  /\ systemState = STATE_MENU
  /\ buttons[B_SELECT].stable
  /\ \E k \in CallsOf(calls, "returnToMenu") : calls[k].state = STATE_PLAYING
  /\ CallsOf(calls, "updateGame") = {}

\* C7: the menu index is always one of 0 .. GAME_COUNT-1; an UP press taken in
\* the menu moves it one down, from 0 to GAME_COUNT-1, a DOWN press one up, from
\* GAME_COUNT-1 to 0; nothing else moves it; and startGame is passed the menu
\* index, a game of the list.
C7_MenuWraps ==
  /\ [](menuIndex \in 0 .. (GAME_COUNT - 1))
  /\ [][LET taken == systemState = STATE_MENU /\ ~MuteFires
            a == IF taken /\ PressFound(B_UP)
                 THEN (IF menuIndex = 0 THEN GAME_COUNT - 1 ELSE menuIndex - 1)
                 ELSE menuIndex
            b == IF taken /\ PressFound(B_DOWN)
                 THEN (IF a = GAME_COUNT - 1 THEN 0 ELSE a + 1)
                 ELSE a
        IN  /\ menuIndex' = b
            /\ \A k \in CallsOf(calls', "startGame") :
                 calls'[k].id = b /\ calls'[k].id \in 0 .. (GAME_COUNT - 1)]_vars

\* C7 witness: one UP press at index 0 has moved the cursor to the last game.
C7_Witness ==
  /\ systemState = STATE_MENU
  /\ rawChanges = 1
  /\ buttons[B_UP].stable
  /\ menuIndex = GAME_COUNT - 1

\* C8: every call of a game's update function while playing runs the game's
\* logic unless the game is paused; and in a game that handles the pause
\* button, a PAUSE press found by the call toggles gamePaused and the call does
\* not run the logic, when it pauses and when it resumes.
C8_PauseToggle ==
  [][\A k \in CallsOf(calls', "updateGame") :
       LET e == calls'[k]
       IN  IF e.pausePress /\ PauseKind(e.id) # "none"
           THEN gamePaused' = ~e.paused /\ ~Ran("advance")
           ELSE Ran("advance") <=> ~e.paused]_vars

\* ------------------------------------------------------------------------
\* Claims about the button layer (SpecButtons)
\* ------------------------------------------------------------------------
NoNewEdge(b) ==
  /\ buttons'[b].stable = buttons[b].stable
  /\ buttons'[b].press => buttons[b].press
  /\ buttons'[b].release => buttons[b].release

\* C9: while the sampled raw level of a button keeps changing faster than the
\* debounce window (no level reached by a change is held for 30 ms), the stable
\* level isDown reports stays the level read at boot and neither edge flag is
\* set; and no sample taken less than 30 ms after the last raw change commits a
\* level or sets an edge.
C9_BouncesAbsorbed ==
  /\ [](\A b \in ButtonId :
          rawHist[b].fast =>
            /\ isDown(buttons, b) = rawHist[b].boot
            /\ ~buttons[b].press
            /\ ~buttons[b].release)
  /\ [][\A b \in ButtonId : rawHist'[b].held < BTN_DEBOUNCE_MS => NoNewEdge(b)]_vars

\* C9 witness: a button went pressed and back within 10 ms and no press registered.
C9_Witness ==
  /\ op.name = "updateButtons"
  /\ rawHist[0].n = 2 /\ rawHist[0].gap <= 10 /\ rawHist[0].fast
  /\ ~rawHist[0].boot /\ ~rawHist[0].level
  /\ ~isDown(buttons, 0) /\ ~buttons[0].press

\* C10: a sample that finds the raw level different from the stable level and
\* unchanged for at least 30 ms commits it and sets the one edge flag of that
\* direction (the other flag is left as it was); a sample that finds the raw
\* level equal to the stable level changes neither the stable level nor a flag;
\* and no flag is set by anything else.
C10_CommitOnce ==
  [][\A b \in ButtonId :
       LET r == rawHist'[b].level
           due == r # buttons[b].stable /\ rawHist'[b].held >= BTN_DEBOUNCE_MS
       IN  /\ (op'.name = "updateButtons" /\ due) =>
                /\ buttons'[b].stable = r
                /\ IF r THEN buttons'[b].press /\ buttons'[b].release = buttons[b].release
                        ELSE buttons'[b].release /\ buttons'[b].press = buttons[b].press
           /\ ~(op'.name = "updateButtons" /\ due) => NoNewEdge(b)]_vars

\* C10 witness: a press was committed by the sample taken exactly 30 ms after the change.
C10_Witness ==
  /\ op.name = "updateButtons"
  /\ rawHist[0].level /\ rawHist[0].held = BTN_DEBOUNCE_MS /\ rawHist[0].n = 1
  /\ ~rawHist[0].boot
  /\ isDown(buttons, 0) /\ buttons[0].press /\ ~buttons[0].release

\* ------------------------------------------------------------------------
\* Claims about the button layer, continued (SpecButtons, Spec)
\* ------------------------------------------------------------------------
\* C11: takePress(id) returns true exactly once per committed press edge and
\* clears the flag.  Since the last clearButtonEdges, the press edges
\* updateButtons committed for a button less the true results of takePress for
\* it are 1 while its press flag is set and 0 while it is clear (so every
\* committed edge gets one true result of its own); takePress returns the flag
\* and leaves it clear, touching nothing else; isDown changes no button.
C11_TakePressOncePerEdge ==
  /\ [](\A b \in ButtonId : rawHist[b].owed = IF buttons[b].press THEN 1 ELSE 0)
  /\ [][op'.name = "takePress" =>
          /\ op'.result = buttons[op'.id].press
          /\ buttons' = [buttons EXCEPT ![op'.id].press = FALSE]]_vars
  /\ [][op'.name = "isDown" => buttons' = buttons]_vars

\* C12: no button has both its press flag and its release flag set.
C12_EdgesExclusive == \A b \in ButtonId : ~(buttons[b].press /\ buttons[b].release)

\* ------------------------------------------------------------------------
\* Claims about the tone queue (SpecSound)
\* ------------------------------------------------------------------------
\* C13: after any sequence of enqueueTone, updateSound and setSoundMuted calls
\* toneHead and toneTail are within 0 .. 23, the occupancy (tail - head) mod 24
\* is the number of events accepted and not yet started or discarded, and that
\* number is at most 23: head = tail exactly when no event is pending.
C13_ToneQueueInvariant ==
  /\ toneHead \in 0 .. (TONE_QUEUE_SIZE - 1)
  /\ toneTail \in 0 .. (TONE_QUEUE_SIZE - 1)
  /\ Occupancy(toneHead, toneTail) = Len(sound.pending)
  /\ Len(sound.pending) <= TONE_QUEUE_SIZE - 1
  /\ (toneHead = toneTail) <=> (sound.pending = <<>>)

\* C13 witness: 23 events are queued across the end of the ring and one more
\* enqueueTone call has just been made.
C13_Witness ==
  /\ op.name = "enqueueTone"
  /\ toneTail < toneHead
  /\ Len(sound.pending) = TONE_QUEUE_SIZE - 1
  /\ sound.pending[Len(sound.pending)].freq # op.freq

\* C14: enqueueTone on a full queue (23 events queued, not muted) leaves
\* toneHead, toneTail and every queued event unchanged, so the newest event is
\* the one dropped; and as long as only enqueueTone has been called since
\* setup, the queue holds the events of the first 23 calls in order (of 30
\* calls the first 23 are kept and the last 7 dropped).
C14_FullQueueDropsNewest ==
  /\ [][(/\ op'.name = "enqueueTone"
         /\ ~soundMuted
         /\ Occupancy(toneHead, toneTail) = TONE_QUEUE_SIZE - 1) =>
          UNCHANGED <<toneQueue, toneHead, toneTail, toneActive, toneEndTime, buzzer>>]_vars
  /\ [](sound.quiet =>
          /\ toneHead = 0
          /\ Queued(toneQueue, toneHead, toneTail) =
               [j \in 1 .. Min(sound.n, TONE_QUEUE_SIZE - 1) |-> SoundEvent(j)])

\* C14 witness: 30 events were enqueued with no pump in between; the first 23
\* are queued.
C14_Witness ==
  /\ sound.quiet
  /\ sound.n = 30
  /\ op.name = "enqueueTone" /\ op.freq = SoundEvent(30).freq
  /\ Occupancy(toneHead, toneTail) = 23
  /\ toneQueue[0] = SoundEvent(1) /\ toneQueue[22] = SoundEvent(23)

\* C15: while unmuted the ring holds, from toneHead to toneTail, exactly the
\* events accepted and not yet started, in the order their enqueueTone calls
\* were accepted (none reordered, duplicated or lost), and every tone
\* updateSound starts is the oldest of them, which is thereby removed.
C15_Fifo ==
  /\ [](~soundMuted => Queued(toneQueue, toneHead, toneTail) = sound.pending)
  /\ [][(~soundMuted /\ buzzer' # 0 /\ buzzer' # buzzer) =>
          /\ op'.name = "updateSound"
          /\ sound.pending # <<>>
          /\ buzzer' = Head(sound.pending).freq
          /\ sound'.pending = Tail(sound.pending)
          /\ Queued(toneQueue', toneHead', toneTail') = Tail(sound.pending)]_vars

\* C15 witness: updateSound has just started a tone while later events wait
\* behind it across the end of the ring.
C15_Witness ==
  /\ op.name = "updateSound"
  /\ ~soundMuted /\ buzzer # 0 /\ sound.age = 0
  /\ Len(sound.pending) >= 2
  /\ sound.pending[1].freq > buzzer
  /\ toneTail < toneHead

\* C16: at most one tone sounds at a time.  The buzzer carries a tone exactly
\* when toneActive is set; a new tone comes onto the buzzer only in
\* updateSound, and only when no tone is active or the active tone has reached
\* its end time and is stopped by that call; no enqueueTone or setSoundMuted
\* call starts a tone.
C16_OneToneAtATime ==
  /\ [](toneActive <=> buzzer # 0)
  /\ [][(buzzer' # 0 /\ buzzer' # buzzer) =>
          /\ op'.name = "updateSound"
          /\ ~toneActive \/ op'.dt >= toneEndTime]_vars

\* C16 witness: updateSound ran while a tone was sounding and events were
\* waiting, and the same tone is still sounding.
C16_Witness ==
  /\ op.name = "updateSound"
  /\ toneActive /\ buzzer # 0 /\ sound.age > 0
  /\ sound.pending # <<>>

\* C17: while unmuted, a tone started at time t with duration d is still on
\* the buzzer after every updateSound(now) with now < t + d; the first
\* updateSound(now) with now >= t + d stops it, and that same call starts the
\* oldest pending event, if there is one, with toneEndTime = now + its duration
\* (otherwise the buzzer falls silent).  sound.age is now - t before the call
\* and toneEndTime' is counted from the now of the call.
C17_ToneTiming ==
  [][(op'.name = "updateSound" /\ ~soundMuted /\ buzzer # 0) =>
       LET due == sound.age + op'.dt >= EventOf(buzzer).duration
       IN  /\ ~due => /\ buzzer' = buzzer
                      /\ toneActive'
                      /\ UNCHANGED <<toneHead, toneTail>>
           /\ due => /\ buzzer' # buzzer
                     /\ IF sound.pending = <<>>
                        THEN buzzer' = 0 /\ ~toneActive'
                        ELSE /\ buzzer' = Head(sound.pending).freq
                             /\ toneActive'
                             /\ toneEndTime' = Head(sound.pending).duration]_vars

\* C17 witness: one updateSound call stopped a tone and started the next one,
\* whose end time is its own duration from now.
C17_Witness ==
  /\ op.name = "updateSound" /\ op.stopped
  /\ ~soundMuted /\ toneActive /\ buzzer # 0
  /\ sound.age = 0
  /\ toneEndTime = EventOf(buzzer).duration

\* C18: while the mute flag is set no tone is active, the buzzer is silent and
\* the queue is empty, and enqueueTone changes nothing; setSoundMuted(true)
\* brings that about at once; and no event of an enqueueTone call made up to
\* the last moment the flag was set (sound.mark counts those calls) is ever
\* put on the buzzer.
C18_Mute ==
  /\ [](soundMuted => ~toneActive /\ buzzer = 0 /\ toneHead = toneTail)
  /\ [][(op'.name = "enqueueTone" /\ soundMuted) =>
          UNCHANGED <<toneQueue, toneHead, toneTail, toneActive, toneEndTime,
                      soundMuted, buzzer>>]_vars
  /\ [][(op'.name = "setSoundMuted" /\ op'.muted) =>
          soundMuted' /\ ~toneActive' /\ buzzer' = 0 /\ toneHead' = toneTail']_vars
  /\ [][(buzzer' # 0 /\ buzzer' # buzzer) => buzzer' - SoundFreqBase > sound'.mark]_vars

\* C18 witness: setSoundMuted(true) has just cut a sounding tone and discarded
\* two or more queued events.
C18_Witness ==
  /\ op.name = "setSoundMuted" /\ op.muted /\ op.cut /\ op.discarded >= 2
  /\ soundMuted /\ buzzer = 0 /\ ~toneActive /\ toneHead = toneTail

\* ------------------------------------------------------------------------
\* Claims about the loop (Spec, SpecRender)
\* ------------------------------------------------------------------------
LogicCalls == {"returnToMenu", "startGame", "initGame", "updateGame", "advance", "finishGame"}
MatrixCalls == {"drawMenuMatrix", "drawGame", "drawFlashingPauseBorder",
                "drawGameOverMatrix", "showFrame"}
OledCalls == {"drawMenuOLED", "drawPlayingOLED", "drawGameOverOLED"}

\* What a render call draws belongs to the session state s.
DrawsState(fn, s) ==
  \/ fn \in {"drawMenuMatrix", "drawMenuOLED"} /\ s = STATE_MENU
  \/ fn \in {"drawGame", "drawFlashingPauseBorder", "drawPlayingOLED"} /\ s = STATE_PLAYING
  \/ fn \in {"drawGameOverMatrix", "drawGameOverOLED"} /\ s = STATE_GAME_OVER
  \/ fn = "showFrame"

Renders(fns) == {k \in DOMAIN calls' : calls'[k].fn \in fns}

\* C20: in every iteration, for the matrix (interval 33 ms) and for the text
\* panel (interval 100 ms) separately: the target is rendered exactly when
\* now - lastRender >= interval; then it is rendered once, however long ago
\* the last render was, and lastRender becomes now; otherwise lastRender keeps
\* its value.  So a render of one target leaves the timestamp of the other
\* alone, and two renders of a target are at least one interval apart.
\* Timestamps are counted from the now of the last iteration: before the step
\* now is op'.dt, after it now is 0.
C20_RenderCadence ==
  [][LET now == op'.dt
         matrixDue == now - lastMatrixMs >= MATRIX_FRAME_MS
         oledDue == now - lastOledMs >= OLED_FRAME_MS
     IN  /\ matrixDue <=> Ran("showFrame")
         /\ matrixDue => /\ Cardinality(Renders({"showFrame"})) = 1
                         /\ Cardinality(Renders({"drawMenuMatrix", "drawGame",
                                                 "drawGameOverMatrix"})) = 1
                         /\ lastMatrixMs' = 0
         /\ ~matrixDue => lastMatrixMs' = lastMatrixMs - now
         /\ oledDue <=> Renders(OledCalls) # {}
         /\ oledDue => /\ Cardinality(Renders(OledCalls)) = 1
                       /\ lastOledMs' = 0
         /\ ~oledDue => lastOledMs' = lastOledMs - now]_vars

\* C20 witness: an iteration came more than two text-panel intervals after the
\* last renders; each target was rendered once and stamped with now.
C20_Witness ==
  /\ op.name = "loop" /\ op.dt >= 2 * OLED_FRAME_MS
  /\ Cardinality(CallsOf(calls, "showFrame")) = 1
  /\ Cardinality(CallsOf(calls, "drawMenuOLED")) = 1
  /\ lastMatrixMs = 0 /\ lastOledMs = 0

\* ------------------------------------------------------------------------
\* Claims about the frame buffer (SpecFrame)
\* ------------------------------------------------------------------------
\* The physical index of cell (x, y) of the serpentine strip, as documented.
Serpentine(x, y) == IF y % 2 = 0 THEN y * 8 + x ELSE y * 8 + (7 - x)

\* C21: setPixel(x, y, c) with x or y outside 0 .. 7 leaves the whole frame
\* buffer unchanged; with (x, y) inside it sets the cell at the serpentine
\* index of (x, y) to c and changes no other cell.
C21_SetPixel ==
  [][op'.name = "setPixel" =>
       IF op'.x \in 0 .. 7 /\ op'.y \in 0 .. 7
       THEN /\ frameBuffer'[Serpentine(op'.x, op'.y)] = op'.color
            /\ \A i \in 0 .. 63 :
                 i # Serpentine(op'.x, op'.y) => frameBuffer'[i] = frameBuffer[i]
       ELSE frameBuffer' = frameBuffer]_vars

\* C21 witness: cell (0, 1) was lit, and setPixel(8, 1, 1) has left the frame
\* as it was.
C21_Witness ==
  /\ op.name = "setPixel" /\ op.x = 8 /\ op.y = 1 /\ op.color = 1
  /\ Lit(frameBuffer) = {15}

\* C22: for all x, y in 0 .. 7 ledIndex(x, y) is y*8 + x on even rows and
\* y*8 + (7 - x) on odd rows (row 1 maps x = 0 .. 7 to 15 .. 8), every physical
\* index 0 .. 63 belongs to exactly one cell, and the cell setPixel has just lit
\* is the one at that index.
C22_Serpentine ==
  /\ \A x \in 0 .. 7, y \in 0 .. 7 : ledIndex(x, y) = Serpentine(x, y)
  /\ \A x \in 0 .. 7 : ledIndex(x, 1) = 15 - x
  /\ \A i \in 0 .. 63 :
       Cardinality({c \in (0 .. 7) \X (0 .. 7) : ledIndex(c[1], c[2]) = i}) = 1
  /\ (op.name = "setPixel" /\ op.x \in 0 .. 7 /\ op.y \in 0 .. 7 /\ op.color # 0) =>
       /\ frameBuffer[Serpentine(op.x, op.y)] = op.color
       /\ Serpentine(op.x, op.y) \in Lit(frameBuffer)

\* C22 witness: setPixel(2, 3, 1) has lit physical LED 29.
C22_Witness ==
  /\ op.name = "setPixel" /\ op.x = 2 /\ op.y = 3 /\ op.color = 1
  /\ Lit(frameBuffer) = {29}

\* ------------------------------------------------------------------------
\* Claims about the game router (SpecRounds, SpecRouter)
\* ------------------------------------------------------------------------
\* C23: currentGame changes only in an iteration that calls startGame, to the
\* id startGame is given; startGame(id) calls initGame(id) and nothing else
\* calls initGame; every updateGame, game logic and drawGame call is for the
\* game whose init function was the last to write gameState, and is made in
\* STATE_PLAYING; and while the session is in STATE_PLAYING the current game is
\* that game.
C23_ActiveModule ==
  /\ [](systemState = STATE_PLAYING => slotOwner = currentGame)
  /\ [][currentGame' # currentGame =>
          \E k \in CallsOf(calls', "startGame") : calls'[k].id = currentGame']_vars
  /\ [][\A k \in DOMAIN calls' :
          /\ calls'[k].fn = "startGame" =>
               /\ k < Len(calls')
               /\ calls'[k + 1].fn = "initGame"
               /\ calls'[k + 1].id = calls'[k].id
          /\ calls'[k].fn = "initGame" =>
               /\ k > 1
               /\ calls'[k - 1].fn = "startGame"
          /\ calls'[k].fn \in {"updateGame", "advance", "drawGame"} =>
               /\ calls'[k].state = STATE_PLAYING
               /\ calls'[k].id = calls'[k].owner]_vars

\* C23 witness: a later round of Asteroids, started after an earlier round set
\* a high score, is advanced and drawn.
C23_Witness ==
  /\ op.name = "loop"
  /\ systemState = STATE_PLAYING /\ currentGame = GAME_ASTEROIDS_HARD
  /\ slotOwner = GAME_ASTEROIDS_HARD
  /\ highScore[GAME_ASTEROIDS_HARD] > 0 /\ score = 0
  /\ CallsOf(calls, "updateGame") # {} /\ CallsOf(calls, "drawGame") # {}

\* ------------------------------------------------------------------------
\* Claims about the session, continued (Spec)
\* ------------------------------------------------------------------------
\* The press of b is committed by the updateButtons call of this step.
PressCommitted(b) == ~buttons[b].stable /\ buttons'[b].stable

\* C25: no press edge is carried from one session state into another.  An
\* iteration that starts a game, finishes a round or returns to the menu ends
\* with every press and release flag clear; so a game is started only by a
\* PAUSE press committed in that same iteration with the session in the menu
\* (never by the press that dismissed the game-over screen or cancelled a
\* round), and the first updateGame after a start does not find the press that
\* started the game.
C25_NoStaleEdges ==
  /\ [][(\/ systemState' # systemState
         \/ Ran("startGame") \/ Ran("returnToMenu")
         \/ \E k \in CallsOf(calls', "finishGame") : calls'[k].state = STATE_PLAYING) =>
          \A b \in ButtonId : ~buttons'[b].press /\ ~buttons'[b].release]_vars
  /\ [][Ran("startGame") => systemState = STATE_MENU /\ PressCommitted(B_PAUSE)]_vars
  /\ [][CallsOf(calls, "startGame") # {} =>
          \A k \in CallsOf(calls', "updateGame") : ~calls'[k].pausePress]_vars

\* C25 witness: a round was cancelled with SELECT in an iteration that also
\* committed a press of UP; the session is in the menu, the selection has not
\* moved and no flag is set.
C25_Witness ==
  /\ op.name = "loop"
  /\ systemState = STATE_MENU
  /\ Len(calls) >= 2 /\ calls[1].state = STATE_PLAYING /\ calls[2].fn = "returnToMenu"
  /\ calls[2].edges /\ isDown(buttons, B_UP)
  /\ menuIndex = currentGame
  /\ \A b \in ButtonId : ~buttons[b].press /\ ~buttons[b].release

RouterState ==
  <<buttons, toneQueue, toneHead, toneTail, toneActive, toneEndTime, soundMuted,
    buzzer, systemState, currentGame, menuIndex, score, highScore, lastWin,
    lastMsg, gamePaused, menuMuteComboLatched, gameOverStartTime, slotOwner,
    scoreEvents>>

UnknownCall(fn) == op'.name = fn /\ op'.id \notin GameId

\* C27: initGame, updateGame and drawGame called with an id past the enum
\* change no session, score, module, tone-queue or frame-buffer state.
C27_UnknownIdNoOp ==
  [][(UnknownCall("initGame") \/ UnknownCall("updateGame") \/ UnknownCall("drawGame")) =>
       UNCHANGED <<RouterState, frameBuffer>>]_vars

\* C27 (amended): initGame and updateGame called with an id past the enum
\* change no session, score, module, tone-queue or frame-buffer state;
\* drawGame called with such an id changes no session, score, module or
\* tone-queue state and leaves the frame buffer blank.
C27_UnknownId ==
  /\ [][(UnknownCall("initGame") \/ UnknownCall("updateGame")) =>
          UNCHANGED <<RouterState, frameBuffer>>]_vars
  /\ [][UnknownCall("drawGame") =>
          UNCHANGED RouterState /\ frameBuffer' = clearFrame(0)]_vars

\* C27 witness: in a round with a score and tones queued, after the game drew
\* its scene, drawGame was called with an id past the enum.
C27_Witness ==
  /\ op.name = "drawGame" /\ op.id \notin GameId
  /\ systemState = STATE_PLAYING /\ score > 0 /\ toneTail # toneHead
  /\ CallsOf(calls, "drawGame") # {}
  /\ slotOwner = currentGame

\* ------------------------------------------------------------------------
\* Claims about the last-round message (SpecMessage)
\* ------------------------------------------------------------------------
Terminated(arr) == \E i \in DOMAIN arr : arr[i] = NUL
FirstChars(str, n) == SubSeq(str, 1, IF Len(str) < n THEN Len(str) ELSE n)

\* C28: lastMsg always holds a terminated string of at most 23 characters;
\* finishGame in a round stores the first 23 characters of its message, or
\* "Win" / "Game over" when it is given none; startGame stores "Game over".
C28_LastMsg ==
  /\ [](Terminated(lastMsg) /\ Len(StrOf(lastMsg)) <= 23)
  /\ [][(op'.name = "finishGame" /\ systemState = STATE_PLAYING) =>
          StrOf(lastMsg') =
            (IF op'.message.null
             THEN (IF op'.win THEN <<"W", "i", "n">>
                   ELSE <<"G", "a", "m", "e", " ", "o", "v", "e", "r">>)
             ELSE FirstChars(op'.message.str, 23))]_vars
  /\ [][op'.name = "startGame" =>
          StrOf(lastMsg') = <<"G", "a", "m", "e", " ", "o", "v", "e", "r">>]_vars

\* C28 witness: a round was finished with a message of more than 23
\* characters, after an earlier round left a shorter one.
C28_Witness ==
  /\ op.name = "finishGame" /\ systemState = STATE_GAME_OVER
  /\ ~op.message.null /\ Len(op.message.str) > 23
  /\ Len(StrOf(lastMsg)) = 23
  /\ toneTail > 6

\* ------------------------------------------------------------------------
\* Claims about Minesweeper (SpecMines, SpecMinesFair)
\* ------------------------------------------------------------------------
Cells == Coord \X Coord
MinesOn(board) == {c \in Cells : board[c[2]][c[1]] = MINE}
Adjacent(c) ==
  {d \in Cells : d # c /\ d[1] - c[1] \in {0 - 1, 0, 1} /\ d[2] - c[2] \in {0 - 1, 0, 1}}
\* Minesweeper was initialised and no call of minesweeperPlaceMines is under way.
MinesAtRest == slotOwner = GAME_MINESWEEPER /\ place.pc = "idle"

\* C30: the mines are placed at the first reveal.  Before it the board holds
\* no mine; after it the board holds exactly 10 mines and every other cell
\* holds the number of mines among its neighbours; the cell of the first
\* reveal holds no mine, is revealed, and the reveal does not end the round
\* with a loss.
C30_MinePlacement ==
  /\ []((MinesAtRest /\ gameState.firstClick) => MinesOn(gameState.board) = {})
  /\ []((MinesAtRest /\ ~gameState.firstClick) =>
          /\ Cardinality(MinesOn(gameState.board)) = 10
          /\ \A c \in Cells \ MinesOn(gameState.board) :
               gameState.board[c[2]][c[1]] =
                 Cardinality(Adjacent(c) \cap MinesOn(gameState.board)))
  /\ [][(gameState.firstClick /\ ~gameState'.firstClick) =>
          /\ op'.name = "placed"
          /\ <<op'.x, op'.y>> \notin MinesOn(gameState'.board)
          /\ gameState'.revealed[op'.y][op'.x] = 1
          /\ ~(systemState' = STATE_GAME_OVER /\ ~lastWin')]_vars

\* C30 witness: the first reveal, at the cell the cursor starts on, which is
\* one of the cells random(8) can name; ten mines lie around it.
C30_Witness ==
  /\ op.name = "placed" /\ op.x = 4 /\ op.y = 4
  /\ systemState = STATE_PLAYING /\ score = 1
  /\ gameState.revealed[4][4] = 1
  /\ gameState.board[4][4] >= 2
  /\ Cardinality(MinesOn(gameState.board)) = 10

\* C29: every call the host makes into a module returns.  For the call of
\* minesweeperPlaceMines made by minesweeperUpdate: whenever the placement
\* loop is running, it is eventually left and the call returns, whatever
\* random(8) returns.
C29_CallsReturn == (place.pc = "placing") ~> (place.pc = "idle")

\* What minesweeperUpdate reads besides the buttons and the clock: the game
\* state and its two statics (the start of a press only while one is recorded).
ReadByAdvance(g, wasPressed, pressStart) ==
  <<g, wasPressed, IF wasPressed THEN pressStart ELSE 0>>

\* C24: initGame establishes all the state the game's update depends on, so a
\* round does not depend on what happened before startGame.  For Minesweeper:
\* when a round starts, the state its update reads is the one of the first
\* round after power-up; and, as in that round, the first update of the round
\* (PAUSE is still down from the press that started it) reveals nothing.
C24_NoResidue ==
  /\ [][Ran("startGame") =>
          ReadByAdvance(gameState', pauseWasPressed', pausePressStart') =
            ReadByAdvance(minesweeperInit(MinesCur).gameState, FALSE, 0)]_vars
  /\ [][(CallsOf(calls, "startGame") # {} /\ Ran("updateGame")) =>
          /\ place'.pc = "idle"
          /\ score' = 0
          /\ gameState'.revealed = gameState.revealed]_vars

\* Whether Snake owns the game state: a round of Snake is being played or is over.
SnakeRound == systemState # STATE_MENU /\ currentGame \in SnakeGames

\* C31: in Snake the food is never on a cell occupied by a segment of the
\* snake: every placement, at the start of a round and after the snake has
\* eaten, puts it on a free cell, whatever random(0, 8) returns.
C31_FoodOffSnake ==
  SnakeRound => ~snakeHasSegment(gameState, gameState.foodX, gameState.foodY)

\* C32: in Snake the direction applied at a move is never the opposite of the
\* direction applied at the move before, whatever was pressed in between.
C32_NoReversal ==
  [][(SnakeRound /\ Ran("updateGame")) =>
       ~(gameState'.dx = 0 - gameState.dx /\ gameState'.dy = 0 - gameState.dy)]_vars

\* The snake, which starts to the right, moves to the left after two or more
\* presses: the turn took two moves.
C32_Witness ==
  /\ SnakeRound
  /\ systemState = STATE_PLAYING
  /\ gameState.dx = 0 - 1
  /\ gameState.body[1][1] < gameState.body[2][1]
  /\ rawChanges >= 2

\* C33: in Tic-Tac-Toe against the AI, with the human moving first, the
\* human never completes a line: no round ends with the human winning.
C33_HumanNeverWins ==
  (systemState # STATE_MENU /\ currentGame = GAME_TTT_AI)
    => tttCheckWinner(gameState.board) # 1 /\ ~lastWin

\* C34: a loop() iteration that finds the game paused and no press of PAUSE
\* does not run the game's logic, leaves the score as it is and does not end
\* the round; the game stays paused and in play unless the iteration finds a
\* press of SELECT.
C34_PausedFrozen ==
  [][(systemState = STATE_PLAYING /\ gamePaused /\ ~PressFound(B_PAUSE)) =>
       /\ ~Ran("advance")
       /\ score' = score
       /\ systemState' # STATE_GAME_OVER
       /\ (gamePaused' # gamePaused \/ systemState' # systemState) => PressFound(B_SELECT)]_vars

\* An iteration has called the update function of a paused game with no press
\* of PAUSE pending, and the game is still paused.
C34_Witness ==
  /\ systemState = STATE_PLAYING
  /\ gamePaused
  /\ \E k \in CallsOf(calls, "updateGame") : calls[k].paused /\ ~calls[k].pausePress

\* C35: with loop() calling updateSound and the sound on, no accepted tone
\* event waits for ever and no tone sounds for ever: again and again (and, as
\* the calls of enqueueTone end, for good) every accepted event has been
\* started, the queue is empty and the buzzer is silent.
C35_QueueDrains ==
  []<>(sound.pending = <<>> /\ toneHead = toneTail /\ ~toneActive /\ buzzer = 0)

\* All the events of the run were accepted and started, and the last tone has
\* been stopped.
C35_Witness ==
  /\ sound.n = MaxFairEnqueues
  /\ sound.pending = <<>>
  /\ toneHead = MaxFairEnqueues
  /\ toneTail = toneHead
  /\ ~toneActive
  /\ buzzer = 0

\* The calls of an iteration that change the session state: returnToMenu,
\* startGame, and finishGame called while playing.
TransitionCalls(cs) ==
  {k \in DOMAIN cs :
     \/ cs[k].fn \in {"returnToMenu", "startGame"}
     \/ cs[k].fn = "finishGame" /\ cs[k].state = STATE_PLAYING}

\* C36: a loop() iteration changes the session state at most once, whatever
\* presses it finds: it makes at most one call that changes it.
C36_OneTransition == Cardinality(TransitionCalls(calls)) <= 1

\* The iteration found presses of both SELECT and PAUSE in a game: it went to
\* the menu and did not start a game from there.
C36_Witness ==
  /\ systemState = STATE_MENU
  /\ \E k \in CallsOf(calls, "returnToMenu") :
       calls[k].state = STATE_PLAYING /\ calls[k].pausePress

\* C37: the pause flag is set only in a game in play: gamePaused implies
\* systemState = STATE_PLAYING in every reachable state.
C37_PausedOnlyPlaying == gamePaused => systemState = STATE_PLAYING

\* A paused game was cancelled with SELECT: the menu is shown and the flag is clear.
C37_Witness ==
  /\ systemState = STATE_MENU
  /\ ~gamePaused
  /\ \E k \in CallsOf(calls, "returnToMenu") : calls[k].paused

\* C38: on the round-over screen the score does not exceed the recorded best of
\* the game: systemState = STATE_GAME_OVER implies highScore[currentGame] >= score.
C38_ScoreWithinBest ==
  systemState = STATE_GAME_OVER => highScore[currentGame] >= score

\* C39: a finishGame call made while the state is not STATE_PLAYING leaves the
\* state, the high scores, the win flag, the message, the round-over start
\* time and the tone queue as they were; so the state becomes STATE_GAME_OVER
\* only from STATE_PLAYING, once per started round.
C39_FinishOnlyWhilePlaying ==
  /\ [][(op'.name = "finishGame" /\ systemState # STATE_PLAYING) =>
          /\ systemState' = systemState
          /\ highScore' = highScore /\ score' = score
          /\ lastWin' = lastWin /\ lastMsg' = lastMsg
          /\ gameOverStartTime' = gameOverStartTime
          /\ toneQueue' = toneQueue /\ toneHead' = toneHead /\ toneTail' = toneTail
          /\ toneActive' = toneActive /\ toneEndTime' = toneEndTime /\ buzzer' = buzzer
          /\ buttons' = buttons]_vars
  /\ [][(systemState' = STATE_GAME_OVER /\ systemState # STATE_GAME_OVER) =>
          (systemState = STATE_PLAYING /\ op'.name = "finishGame")]_vars

\* A round lost was finished a second time, as won and with another message:
\* the call found STATE_GAME_OVER and the first result stands.
C39_Witness ==
  /\ systemState = STATE_GAME_OVER
  /\ op.name = "finishGame" /\ op.win /\ ~lastWin
  /\ ~op.message.null /\ StrOf(lastMsg) # FirstChars(op.message.str, 23)
  /\ \E k \in CallsOf(calls, "finishGame") : calls[k].state = STATE_GAME_OVER

\* C40: while LEFT and RIGHT are both held the mute flag toggles at most once.
\* In SpecHold the two buttons are never released, so the sound, once muted,
\* stays muted.
C40_OneToggle == [][soundMuted => soundMuted']_vars

====
